---- MODULE Spec2Model ----
(***************************************************************************)
(* A model of the dynamic table store of paul-api: the query translator of *)
(* EntryViewSet.list / TableViewSet.csv_export, the two-table join of      *)
(* FilterViewSet.entries, the creation of TableColumns, the CSV import and *)
(* export, the materializing of a Filter, and the saving of names.         *)
(*                                                                         *)
(* Python strings are sequences of one-character strings, so that split,   *)
(* replace and startswith are computed as Python computes them.            *)
(***************************************************************************)
EXTENDS Integers, Sequences, FiniteSets, TLC

VARIABLES
    tables,     \* Table rows, by id (index): [name, slug]
    columns,    \* TableColumn rows, ordered by id: [table, name, display_name, field_type, slug]
    entries,    \* Entry rows, ordered by id: [id, table, data]
    nextId,     \* the next Entry primary key
    filter,     \* the Filter row: primary and secondary table, join fields, selected fields
    imports,    \* CsvImport rows, by id: [file, table, errors, errors_count, imports_count]
    fieldmaps,  \* CsvFieldMap rows, ordered by id
    databases,  \* Database rows, by id: [name, slug]
    tmp,        \* the files of /tmp: [files: a set of [path, ino, content], runs]
    procs,      \* the export requests in progress, by worker
    job,        \* the create_from_filter request in progress: its page and its batches
    audit,      \* the clock, the user of the requests, and the last-edit fields of the rows
    perms,      \* view permissions on tables: pairs <<user, table>>
    req,        \* the last request handled
    resp,       \* its response
    seen        \* the pages answered for the same request while the store stayed fixed

vars == <<tables, columns, entries, nextId, filter, imports, fieldmaps, databases, tmp, procs, job, audit,
          perms, req, resp, seen>>

----------------------------------------------------------------------------
(* Python str operations *)

EMPTY == <<>>
DUNDER == <<"_", "_">>
COMMA == <<",">>
DASH == <<"-">>
DATA == <<"d", "a", "t", "a", "_", "_">>
IN_SUFFIX == <<"_", "_", "i", "n">>
ALL == <<"A", "L", "L">>

\* s.startswith(p)
StartsWith(s, p) == Len(p) <= Len(s) /\ SubSeq(s, 1, Len(p)) = p

\* s[i:] with i counted from 0
From(s, i) == SubSeq(s, i + 1, Len(s))

\* s.replace(old, new), old non-empty: every non-overlapping occurrence, left to right
RECURSIVE Replace(_, _, _)
Replace(s, old, new) ==
    IF s = EMPTY THEN EMPTY
    ELSE IF StartsWith(s, old) THEN new \o Replace(From(s, Len(old)), old, new)
    ELSE <<Head(s)>> \o Replace(Tail(s), old, new)

\* s.split(sep), sep non-empty: a non-empty list of parts
RECURSIVE SplitAcc(_, _, _)
SplitAcc(s, sep, cur) ==
    IF s = EMPTY THEN <<cur>>
    ELSE IF StartsWith(s, sep) THEN <<cur>> \o SplitAcc(From(s, Len(sep)), sep, EMPTY)
    ELSE SplitAcc(Tail(s), sep, Append(cur, Head(s)))

Split(s, sep) == SplitAcc(s, sep, EMPTY)

\* sep.join(parts)
RECURSIVE Join(_, _)
Join(parts, sep) ==
    IF parts = <<>> THEN EMPTY
    ELSE IF Len(parts) = 1 THEN parts[1]
    ELSE parts[1] \o sep \o Join(Tail(parts), sep)

Range(f) == {f[i] : i \in DOMAIN f}

\* parts[:n]
Take(parts, n) == SubSeq(parts, 1, IF n < Len(parts) THEN n ELSE Len(parts))

----------------------------------------------------------------------------
(* Python / JSON values: one record shape for None, float, str and list *)

NULL == [t |-> "null", n |-> 0, s |-> EMPTY, l |-> <<>>]
Num(n) == [t |-> "num", n |-> n, s |-> EMPTY, l |-> <<>>]
Str(s) == [t |-> "str", n |-> 0, s |-> s, l |-> <<>>]
PyList(l) == [t |-> "list", n |-> 0, s |-> EMPTY, l |-> l]

\* a Python dict as a function; d[k] = v
EmptyDict == <<>>
DictSet(d, k, v) == [x \in (DOMAIN d) \cup {k} |-> IF x = k THEN v ELSE d[x]]

\* d.update(e)
DictUpdate(d, e) == [x \in (DOMAIN d) \cup (DOMAIN e) |-> IF x \in DOMAIN e THEN e[x] ELSE d[x]]

Digits == {"0", "1", "2", "3", "4", "5", "6", "7", "8", "9"}

DigitVal(c) ==
    CASE c = "0" -> 0 [] c = "1" -> 1 [] c = "2" -> 2 [] c = "3" -> 3 [] c = "4" -> 4
      [] c = "5" -> 5 [] c = "6" -> 6 [] c = "7" -> 7 [] c = "8" -> 8 [] OTHER -> 9

\* whether float(s) succeeds, for the strings drawn here: digit strings do, the
\* rest raises ValueError
IsNumeric(s) == s # EMPTY /\ \A i \in DOMAIN s : s[i] \in Digits

RECURSIVE ParseNat(_)
ParseNat(s) == IF s = EMPTY THEN 0 ELSE 10 * ParseNat(SubSeq(s, 1, Len(s) - 1)) + DigitVal(s[Len(s)])

\* the order of characters in the strings drawn here
Alphabet == <<"-", "0", "1", "2", "3", "A", "L", "_", "a", "b", "c", "d", "f", "i", "k", "n", "o", "s", "t", "v", "x", "z">>
Ord(c) == IF \E i \in DOMAIN Alphabet : Alphabet[i] = c
          THEN CHOOSE i \in DOMAIN Alphabet : Alphabet[i] = c ELSE 0

RECURSIVE StrLess(_, _)
StrLess(a, b) ==
    IF b = EMPTY THEN FALSE
    ELSE IF a = EMPTY THEN TRUE
    ELSE IF Head(a) = Head(b) THEN StrLess(Tail(a), Tail(b))
    ELSE Ord(Head(a)) < Ord(Head(b))

\* the order ORDER BY gives to jsonb values: strings below numbers; SQL NULL
\* (a missing key) above every value, so last ascending and first descending
TypeRank(v) == CASE v.t = "str" -> 1 [] v.t = "num" -> 2 [] OTHER -> 3
JsonLess(a, b) ==
    IF TypeRank(a) # TypeRank(b) THEN TypeRank(a) < TypeRank(b)
    ELSE IF a.t = "num" THEN a.n < b.n
    ELSE IF a.t = "str" THEN StrLess(a.s, b.s)
    ELSE FALSE

----------------------------------------------------------------------------
(* The Entry store and the ORM queries the views issue *)

\* the Entry rows of table t, in id order
RECURSIVE SelectSeq2(_, _)
SelectSeq2(s, t) ==
    IF s = <<>> THEN <<>>
    ELSE IF Head(s).table = t THEN <<Head(s)>> \o SelectSeq2(Tail(s), t)
    ELSE SelectSeq2(Tail(s), t)

TableEntries(t) == SelectSeq2(entries, t)

\* data -> path for a "data__a__b" key path; a missing key is SQL NULL
KeyValue(data, path) ==
    IF Len(path) = 1 /\ path[1] \in DOMAIN data THEN data[path[1]] ELSE NULL

\* the values an __in lookup iterates: a list's items, a str's characters
InItems(v) ==
    IF v.t = "list" THEN Range(v.l)
    ELSE IF v.t = "str" THEN {Str(<<v.s[i]>>) : i \in DOMAIN v.s}
    ELSE {}

\* one keyword of .filter(**filter_dict): "data__<path>" is an exact match of the
\* JSON value, "data__<path>__in" a membership test
Lookup(data, key, val) ==
    LET parts == Split(From(key, Len(DATA)), DUNDER)
        isIn == Len(parts) >= 2 /\ parts[Len(parts)] = <<"i", "n">>
        path == IF isIn THEN SubSeq(parts, 1, Len(parts) - 1) ELSE parts
        stored == KeyValue(data, path)
    IN  /\ stored # NULL
        /\ IF isIn THEN stored \in InItems(val) ELSE stored = val

\* .filter(**d) on one entry
Matches(data, d) == \A key \in DOMAIN d : Lookup(data, key, d[key])

\* the permutations of a set of rows
Perms(S) == {f \in [1..Cardinality(S) -> S] : \A i, j \in 1..Cardinality(S) : f[i] = f[j] => i = j}

\* the sort key of .order_by(order): "id", "data__<path>" or "-data__<path>"
Descending(order) == StartsWith(order, DASH)
OrderPath(order) ==
    LET o == IF Descending(order) THEN From(order, 1) ELSE order
    IN  Split(From(o, Len(DATA)), DUNDER)

\* whether row a may come before row b under .order_by(order): rows that compare
\* equal come in whatever order the database produces
MayPrecede(a, b, order) ==
    IF order = <<"i", "d">> THEN a.id <= b.id
    ELSE LET ka == KeyValue(a.data, OrderPath(order))
             kb == KeyValue(b.data, OrderPath(order))
         IN  IF Descending(order) THEN ~JsonLess(ka, kb) ELSE ~JsonLess(kb, ka)

\* every result list the database may return for rows.order_by(order)
OrderBy(rows, order) ==
    {f \in Perms(rows) : \A i, j \in DOMAIN f : i < j => MayPrecede(f[i], f[j], order)}

----------------------------------------------------------------------------
(* Pagination: EntriesPagination over Django's Paginator *)

page_size == 10
max_page_size == 1000

\* perPage = 0 stands for an absent (or non-positive) perPage parameter
PageSize(perPage) ==
    IF perPage > 0 THEN (IF perPage > max_page_size THEN max_page_size ELSE perPage)
    ELSE page_size

NumPages(count, size) == IF count = 0 THEN 1 ELSE (count + size - 1) \div size

ValidPage(number, count, size) == number >= 1 /\ number <= NumPages(count, size)

\* the slice of the ordered result that page `number` holds
PageSlice(rows, number, size) ==
    LET bottom == (number - 1) * size
        top == IF bottom + size > Len(rows) THEN Len(rows) ELSE bottom + size
    IN  SubSeq(rows, bottom + 1, top)

----------------------------------------------------------------------------
(* Responses *)

NoRows == <<>>
\* the body of a response that is not a page of rows
NoBody == [id |-> 0, errors |-> <<>>, errors_count |-> 0, imports_count |-> 0]
Ok(rows, count, size) ==
    [status |-> "ok", exc |-> "", rows |-> rows, count |-> count,
     total_pages |-> NumPages(count, size), body |-> NoBody]
\* Response(body) of the operations that create rows
Done(body) ==
    [status |-> "ok", exc |-> "", rows |-> NoRows, count |-> 0, total_pages |-> 0, body |-> body]
\* an exception no handler catches: the framework answers 500
Crash(exc) == [status |-> "error", exc |-> exc, rows |-> NoRows, count |-> 0, total_pages |-> 0,
     body |-> NoBody]
\* NotFound raised by paginate_queryset for an invalid page: a 404 response
NotFound == [status |-> "notfound", exc |-> "", rows |-> NoRows, count |-> 0, total_pages |-> 0,
     body |-> NoBody]
NoResponse == [status |-> "none", exc |-> "", rows |-> NoRows, count |-> 0, total_pages |-> 0,
     body |-> NoBody]

----------------------------------------------------------------------------
(* Query translation of EntryViewSet.list and TableViewSet.csv_export *)

TableColumns(t) == {i \in DOMAIN columns : columns[i].table = t}

\* table_fields = {x.name: x for x in table.fields.all().order_by("id")}, as
\* name -> field_type: of two columns with one name the later one stays
TableFields(t) ==
    LET names == {columns[i].name : i \in TableColumns(t)}
        last(nm) == CHOOSE i \in TableColumns(t) :
                       /\ columns[i].name = nm
                       /\ \A j \in TableColumns(t) : columns[j].name = nm => j <= i
    IN  [nm \in names |-> columns[last(nm)].field_type]

\* the result of translating the parameters read so far
Translated(d) == [err |-> "", d |-> d]
Raised(exc) == [err |-> exc, d |-> EmptyDict]

\* the loop body without its test that the key names a column: the type lookup
\* then raises KeyError for a key of no column
TranslateParamUnchecked(tf, d, key, raw) ==
    LET parts == Split(raw, COMMA)
        single == Len(parts) = 1
        value == IF single THEN Str(parts[1]) ELSE PyList([i \in DOMAIN parts |-> Str(parts[i])])
        key2 == IF single THEN key ELSE key \o IN_SUFFIX
    IN  IF Split(key2, DUNDER)[1] \notin DOMAIN tf THEN Raised("KeyError")
        ELSE IF tf[Split(key2, DUNDER)[1]] \in {"float", "int"}
        THEN IF value.t = "list" THEN Raised("TypeError")
             ELSE IF IsNumeric(value.s) THEN Translated(DictSet(d, DATA \o key2, Num(ParseNat(value.s))))
             ELSE Raised("ValueError")
        ELSE Translated(DictSet(d, DATA \o key2, value))

\* the loop body for one query parameter: the column is the part of the key
\* before its first "__"; float() raises ValueError on a non-numeric str and
\* TypeError on a list
TranslateParam(tf, d, key, raw) ==
    IF key # EMPTY /\ Split(key, DUNDER)[1] \in DOMAIN tf
    THEN LET parts == Split(raw, COMMA)
             single == Len(parts) = 1
             value == IF single THEN Str(parts[1]) ELSE PyList([i \in DOMAIN parts |-> Str(parts[i])])
             key2 == IF single THEN key ELSE key \o IN_SUFFIX
         IN  IF tf[Split(key2, DUNDER)[1]] \in {"float", "int"}
             THEN IF value.t = "list" THEN Raised("TypeError")
                  ELSE IF IsNumeric(value.s) THEN Translated(DictSet(d, DATA \o key2, Num(ParseNat(value.s))))
                  ELSE Raised("ValueError")
             ELSE Translated(DictSet(d, DATA \o key2, value))
    ELSE Translated(d)

\* for key in request.GET: ...   (GET is the sequence of <<key, value>> pairs)
RECURSIVE TranslateFrom(_, _, _)
TranslateFrom(tf, d, GET) ==
    IF GET = <<>> THEN Translated(d)
    ELSE LET r == TranslateParam(tf, d, Head(GET)[1], Head(GET)[2])
         IN  IF r.err # "" THEN r ELSE TranslateFrom(tf, r.d, Tail(GET))

FilterDict(t, GET) == TranslateFrom(TableFields(t), EmptyDict, GET)

\* the field list: "ALL" or an absent __fields selects every column name
RECURSIVE Dedup(_)
Dedup(s) ==
    IF s = <<>> THEN <<>>
    ELSE LET d == Dedup(SubSeq(s, 1, Len(s) - 1))
         IN  IF s[Len(s)] \in Range(d) THEN d ELSE Append(d, s[Len(s)])

RECURSIVE ColumnNamesFrom(_, _)
ColumnNamesFrom(t, i) ==
    IF i > Len(columns) THEN <<>>
    ELSE IF columns[i].table = t THEN <<columns[i].name>> \o ColumnNamesFrom(t, i + 1)
    ELSE ColumnNamesFrom(t, i + 1)

FieldKeys(t) == Dedup(ColumnNamesFrom(t, 1))

ListFields(t, str_fields) ==
    IF str_fields = ALL THEN FieldKeys(t)
    ELSE IF str_fields # EMPTY THEN Split(str_fields, COMMA)
    ELSE FieldKeys(t)

\* the order_by argument of the list queryset
ListOrderBy(fields, str_order) ==
    IF str_order # EMPTY /\ Replace(str_order, DASH, EMPTY) \in Range(fields)
    THEN IF StartsWith(str_order, DASH) THEN DASH \o DATA \o From(str_order, 1)
         ELSE DATA \o str_order
    ELSE <<"i", "d">>

\* table.entries.filter(**filter_dict)
Filtered(t, d) == {e \in Range(TableEntries(t)) : Matches(e.data, d)}

\* every response EntryViewSet.list may give to request r
ListResponses(r) ==
    IF r.table \notin DOMAIN tables THEN {Crash("DoesNotExist")}
    ELSE LET fd == FilterDict(r.table, r.GET)
             fields == ListFields(r.table, r.fields)
             order == ListOrderBy(fields, r.order)
             size == PageSize(r.perPage)
         IN  IF fd.err # "" THEN {Crash(fd.err)}
             ELSE LET found == Filtered(r.table, fd.d)
                  IN  IF ~ValidPage(r.page, Cardinality(found), size) THEN {NotFound}
                      ELSE {Ok(PageSlice(q, r.page, size), Cardinality(found), size) :
                               q \in OrderBy(found, order)}

----------------------------------------------------------------------------
(* The join of FilterViewSet.entries *)

\* "{}__{}".format(slug, name)
FieldKey(slug, name) == slug \o DUNDER \o name

\* all_fields and field_types of the two sides of the filter
RECURSIVE SideFields(_, _)
SideFields(slug, fs) ==
    IF fs = <<>> THEN <<>> ELSE <<FieldKey(slug, Head(fs).name)>> \o SideFields(slug, Tail(fs))

RECURSIVE SideTypes(_, _, _)
SideTypes(types, slug, fs) ==
    IF fs = <<>> THEN types
    ELSE SideTypes(DictSet(types, FieldKey(slug, Head(fs).name), Head(fs).field_type), slug, Tail(fs))

PrimarySlug == tables[filter.primary.table].slug
SecondarySlug == tables[filter.secondary.table].slug

AllFields ==
    SideFields(PrimarySlug, filter.primary.fields) \o SideFields(SecondarySlug, filter.secondary.fields)

FieldTypes ==
    SideTypes(SideTypes(EmptyDict, PrimarySlug, filter.primary.fields),
              SecondarySlug, filter.secondary.fields)

\* fields: every field, or the names of __fields
EntriesFields(str_fields) ==
    IF str_fields # EMPTY /\ str_fields # ALL THEN Split(str_fields, COMMA) ELSE AllFields

\* the fields that do not start with the primary slug, with the secondary prefix
\* replaced by "data__", and the secondary join field appended
RECURSIVE SecondaryOf(_)
SecondaryOf(fields) ==
    IF fields = <<>> THEN <<>>
    ELSE IF StartsWith(Head(fields), PrimarySlug) THEN SecondaryOf(Tail(fields))
    ELSE <<Replace(Head(fields), SecondarySlug \o DUNDER, DATA)>> \o SecondaryOf(Tail(fields))

SecondaryTableFields(fields) ==
    Append(SecondaryOf(fields), DATA \o filter.secondary.join_field)

\* filter_dict = {primary_table_slug: {}, secondary_table_slug: {}}: one dict per
\* slug, so one shared dict when the two slugs are equal
NewFilterDicts == [sl \in {PrimarySlug, SecondarySlug} |-> EmptyDict]

\* filter_dict[table][key] = v, after filter_dict.setdefault(table, {})
SetIn(fds, table, key, v) ==
    [sl \in (DOMAIN fds) \cup {table} |->
        IF sl = table THEN DictSet(IF table \in DOMAIN fds THEN fds[table] ELSE EmptyDict, key, v)
        ELSE fds[sl]]

TranslatedAll(fds) == [err |-> "", d |-> fds]

\* the loop body for one query parameter of the Filter read path
EntriesParam(fds, key, raw) ==
    LET table_field == Join(Take(Split(key, DUNDER), 2), DUNDER)
    IN  IF key # EMPTY /\ table_field \in Range(AllFields)
        THEN LET table == Split(key, DUNDER)[1]
                 field == Replace(key, table \o DUNDER, EMPTY)
                 parts == Split(raw, COMMA)
                 single == Len(parts) = 1
                 value == IF single THEN Str(parts[1])
                          ELSE PyList([i \in DOMAIN parts |-> Str(parts[i])])
                 field2 == IF single THEN field ELSE field \o IN_SUFFIX
             IN  IF FieldTypes[table_field] \in {"float", "int"}
                 THEN IF value.t = "list" THEN Raised("TypeError")
                      ELSE IF IsNumeric(value.s)
                           THEN TranslatedAll(SetIn(fds, table, DATA \o field2, Num(ParseNat(value.s))))
                      ELSE Raised("ValueError")
                 ELSE TranslatedAll(SetIn(fds, table, DATA \o field2, value))
        ELSE TranslatedAll(fds)

RECURSIVE EntriesParamsFrom(_, _)
EntriesParamsFrom(fds, GET) ==
    IF GET = <<>> THEN TranslatedAll(fds)
    ELSE LET r == EntriesParam(fds, Head(GET)[1], Head(GET)[2])
         IN  IF r.err # "" THEN r ELSE EntriesParamsFrom(r.d, Tail(GET))

EntriesFilterDicts(GET) == EntriesParamsFrom(NewFilterDicts, GET)

\* order_table and order_by of __order
OrderTable(str_order) == Split(Replace(str_order, DASH, EMPTY), DUNDER)[1]

EntriesOrderBy(str_order) ==
    LET o == Replace(str_order, OrderTable(str_order) \o DUNDER, EMPTY)
    IN  IF o # EMPTY
        THEN IF StartsWith(o, DASH) THEN DASH \o DATA \o From(o, 1) ELSE DATA \o o
        ELSE <<"i", "d">>

SecondaryOrderBy(str_order) ==
    IF OrderTable(str_order) = SecondarySlug THEN EntriesOrderBy(str_order) ELSE <<"i", "d">>

\* the values of one column over a list of entries, as a Python list
ValuesOf(rows, name) == PyList([i \in DOMAIN rows |-> KeyValue(rows[i].data, <<name>>)])

\* Entry.objects.filter(table=primary_table.table).filter(**d), in id order
PrimaryRows(d) ==
    LET rows == TableEntries(filter.primary.table)
        keep == {i \in DOMAIN rows : Matches(rows[i].data, d)}
        RECURSIVE pick(_)
        pick(i) == IF i > Len(rows) THEN <<>>
                   ELSE IF i \in keep THEN <<rows[i]>> \o pick(i + 1) ELSE pick(i + 1)
    IN  pick(1)

\* Entry.objects.filter(table__slug=secondary_table_slug).filter(**d): the entries
\* of every table with that slug
SecondaryRows(d) ==
    {e \in Range(entries) : tables[e.table].slug = SecondarySlug /\ Matches(e.data, d)}

\* .values(*names): a name that is not "data__<key>" resolves to no field here
ValuesValid(names) == \A i \in DOMAIN names : StartsWith(names[i], DATA)
ValuesRow(e, names) ==
    [id |-> e.id,
     data |-> [nm \in Range(names) |-> KeyValue(e.data, Split(From(nm, Len(DATA)), DUNDER))]]

\* {x.data[join]: {"data__" + key: value ...}}: the entries that may stand for
\* join value v in the lookup (of several with one value, the last one iterated)
Candidates(backfill, v) ==
    {e \in Range(backfill) : KeyValue(e.data, <<filter.primary.join_field>>) = v}

\* one merged row: secondary keys, then the primary keys over them
Prefixed(d, slug) ==
    LET keys == {Replace(k, DATA, slug \o DUNDER) : k \in DOMAIN d}
    IN  [nk \in keys |-> d[CHOOSE k \in DOMAIN d : Replace(k, DATA, slug \o DUNDER) = nk]]

PrimaryValues(e) == [k \in {DATA \o x : x \in DOMAIN e.data} |-> e.data[From(k, Len(DATA))]]

Merge(row, prim) ==
    [id |-> row.id,
     data |-> DictUpdate(Prefixed(row.data, SecondarySlug),
                         Prefixed(PrimaryValues(prim), PrimarySlug))]

\* the Backfill step for one page of secondary rows: the primary rows whose join
\* value is among the page's, under the primary predicates
PageJoinValues(rows) ==
    PyList([i \in DOMAIN rows |-> rows[i].data[DATA \o filter.secondary.join_field]])

Backfill(rows, fds) ==
    PrimaryRows(SetIn(fds, PrimarySlug, DATA \o filter.primary.join_field \o IN_SUFFIX,
                      PageJoinValues(rows))[PrimarySlug])

\* primary_table_values[...] raises KeyError for a row whose join value the lookup
\* does not hold
LookupFails(rows, fds) ==
    \E v \in Range(PageJoinValues(rows).l) : Candidates(Backfill(rows, fds), v) = {}

\* the merged pages the Merge step may produce
MergedPages(rows, fds) ==
    LET backfill == Backfill(rows, fds)
        V == Range(PageJoinValues(rows).l)
    IN  {[i \in DOMAIN rows |-> Merge(rows[i], f[rows[i].data[DATA \o filter.secondary.join_field]])] :
            f \in {g \in [V -> Range(backfill)] : \A v \in V : g[v] \in Candidates(backfill, v)}}

\* every response FilterViewSet.entries may give to request r (r.table is the pk)
EntriesResponses(r) ==
    IF r.table # 1 THEN {Crash("IndexError")}
    ELSE LET fields == EntriesFields(r.fields)
             names == SecondaryTableFields(fields)
             fds == EntriesFilterDicts(r.GET)
             size == PageSize(r.perPage)
         IN  IF fds.err # "" THEN {Crash(fds.err)}
             ELSE LET join_values == ValuesOf(PrimaryRows(fds.d[PrimarySlug]),
                                              filter.primary.join_field)
                      fds2 == SetIn(fds.d, SecondarySlug,
                                    DATA \o filter.secondary.join_field \o IN_SUFFIX, join_values)
                      found == SecondaryRows(fds2[SecondarySlug])
                  IN  IF ~ValuesValid(names) THEN {Crash("FieldError")}
                      ELSE IF ~ValidPage(r.page, Cardinality(found), size) THEN {NotFound}
                      ELSE UNION {
                             LET slice == PageSlice(q, r.page, size)
                                 rows == [i \in DOMAIN slice |-> ValuesRow(slice[i], names)]
                             IN  IF LookupFails(rows, fds2) THEN {Crash("KeyError")}
                                 ELSE {Ok(m, Cardinality(found), size) : m \in MergedPages(rows, fds2)}
                             : q \in OrderBy(found, SecondaryOrderBy(r.order))}

----------------------------------------------------------------------------
(* The universe of the entry listing: one table "o" and its columns *)

MaxEntries == 3
MaxTables == 3

None == <<"None">>

Column(t, name, type) ==
    [table |-> t, name |-> name, display_name |-> name, field_type |-> type, slug |-> None]

c_v == <<"v">>
c_n == <<"n">>
c_ab == <<"a", "-", "b">>
c_nx == <<"n", "_", "_", "x">>
c_zz == <<"z", "z">>

ListTables == <<[name |-> <<"o">>, slug |-> <<"o">>]>>
ListColumns ==
    <<Column(1, c_v, "int"), Column(1, c_n, "text"), Column(1, c_ab, "int"), Column(1, c_nx, "text")>>

\* the attribute maps entries are created with; the last one lacks v and a-b and
\* holds a value under n__x
ListData ==
    { [k \in {c_v, c_n, c_ab} |-> IF k = c_v THEN Num(1) ELSE IF k = c_n THEN Str(<<"a">>) ELSE Num(2)],
      [k \in {c_v, c_n, c_ab} |-> IF k = c_v THEN Num(1) ELSE IF k = c_n THEN Str(<<"b">>) ELSE Num(1)],
      [k \in {c_v, c_n, c_ab} |-> IF k = c_v THEN Num(2) ELSE IF k = c_n THEN Str(<<"a">>) ELSE Num(1)],
      [k \in {c_n, c_nx} |-> IF k = c_n THEN Str(<<"b">>) ELSE Str(<<"a">>)] }

\* request.data of a request that carries none
NoData == [name |-> EMPTY, fields |-> <<>>, import_id |-> 0, filter_id |-> 0]

Request(op, t, GET, fields, order, pg, perPage) ==
    [op |-> op, table |-> t, pk |-> 0, GET |-> GET, fields |-> fields, order |-> order,
     page |-> pg, perPage |-> perPage, data |-> NoData]
NoRequest == Request("none", 0, <<>>, EMPTY, EMPTY, 1, 0)

Param(k, v) == <<k, v>>

ListGETs ==
    { <<>>,
      <<Param(c_v, <<"1">>)>>,
      <<Param(c_v, <<"x">>)>>,
      <<Param(c_v, <<"1", ",", "2">>)>>,
      <<Param(c_n, <<"a">>)>>,
      <<Param(c_n, <<"a", ",", "b">>)>>,
      <<Param(c_n, <<"a", ",">>)>>,
      <<Param(c_zz, <<"1">>)>>,
      <<Param(c_nx, <<"a">>)>>,
      <<Param(c_zz, <<"1">>), Param(c_v, <<"1">>)>>,
      <<Param(c_zz, <<"x">>), Param(c_n, <<"a", ",", "b">>)>> }

ListOrders ==
    { EMPTY, c_v, DASH \o c_v, DASH \o DASH \o c_v, c_ab, DASH \o c_ab, c_n, c_zz }

ListFieldSpecs == { EMPTY, ALL, c_n, c_v \o COMMA \o c_n }

ListRequests ==
    {Request("list", 1, g, EMPTY, EMPTY, 1, 0) : g \in ListGETs}
    \cup {Request("list", 1, <<>>, f, o, 1, 0) : f \in ListFieldSpecs, o \in ListOrders}
    \cup {Request("list", 1, <<>>, EMPTY, o, pg, pp) : o \in {EMPTY, c_v}, pg \in {1, 2}, pp \in {1, 2}}
    \cup {Request("list", 2, <<>>, EMPTY, EMPTY, 1, 0)}

----------------------------------------------------------------------------
(* Actions.  Requests are handled one at a time: a handler runs from the    *)
(* request to its response in one step, and the client takes the response  *)
(* before the next request is sent.                                        *)

Idle == resp.status = "none"

\* the client takes the response
Deliver ==
    /\ ~Idle
    /\ resp' = NoResponse
    /\ req' = NoRequest
    /\ UNCHANGED <<tables, columns, entries, nextId, filter, imports, fieldmaps, databases, audit, perms, tmp, procs, job, seen>>

\* EntryViewSet.create: one new Entry of table t
CreateEntry(t, data) ==
    /\ Idle
    /\ nextId <= MaxEntries
    /\ entries' = Append(entries, [id |-> nextId, table |-> t, data |-> data])
    /\ nextId' = nextId + 1
    /\ seen' = {}
    /\ UNCHANGED <<tables, columns, filter, imports, fieldmaps, databases, audit, perms, tmp, procs, job, req, resp>>

\* EntryViewSet.list
List(r) ==
    /\ Idle
    /\ \E out \in ListResponses(r) : resp' = out
    /\ req' = r
    /\ UNCHANGED <<tables, columns, entries, nextId, filter, imports, fieldmaps, databases, audit, perms, tmp, procs, job, seen>>

\* the Database every table of the universes belongs to
OneDatabase == <<[name |-> <<"d">>, slug |-> <<"d">>]>>

\* the workers that serve export requests
Workers == {1, 2}

\* an empty /tmp, and no export in progress
NoFiles == [files |-> {}, runs |-> 0]
NoProc ==
    [pc |-> "idle", table |-> 0, path |-> <<>>, ino |-> 0, d |-> <<>>, lines |-> <<>>,
     status |-> "none", exc |-> "", content |-> <<>>]
NoProcs == [w \in Workers |-> NoProc]

\* the last-edit fields of a row: 0 is a time before the first request, and no
\* user
NoStamp == [last_edit_date |-> 0, last_edit_user |-> 0]

\* the clock at 1, user 1 signed in, n tables that were not saved since
NoAudit(n) == [now |-> 1, user |-> 1, tables |-> [i \in 1..n |-> NoStamp], filter |-> NoStamp]

\* self.last_edit_date = timezone.now() of Table.save, for the table with id t
TableStamped(t) ==
    LET old == audit.tables
        n == IF t > Len(old) THEN t ELSE Len(old)
    IN  [audit EXCEPT !.tables =
            [i \in 1..n |->
                IF i = t
                THEN [last_edit_date |-> audit.now,
                      last_edit_user |-> IF i \in DOMAIN old THEN old[i].last_edit_user ELSE 0]
                ELSE old[i]]]

\* the users, and every user holding the view permission on every table
Users == {1, 2}
AllPerms == Users \X (1..MaxTables)

\* no create_from_filter request and no entries request in progress
NoJob == [pc |-> "idle", table |-> 0, page |-> 0, pages |-> 0, batches |-> <<>>, exc |-> "",
          r |-> NoRequest, count |-> 0]

NoFilter == [name |-> EMPTY, slug |-> EMPTY, primary |-> 0, secondary |-> 0]

InitList ==
    /\ tables = ListTables
    /\ columns = ListColumns
    /\ entries = <<>>
    /\ nextId = 1
    /\ imports = <<>>
    /\ fieldmaps = <<>>
    /\ filter = NoFilter
    /\ databases = OneDatabase
    /\ tmp = NoFiles
    /\ procs = NoProcs
    /\ job = NoJob
    /\ audit = NoAudit(Len(tables))
    /\ perms = AllPerms
    /\ req = NoRequest
    /\ resp = NoResponse
    /\ seen = {}

NextList ==
    \/ \E d \in ListData : CreateEntry(1, d)
    \/ \E r \in ListRequests : List(r)
    \/ Deliver

SpecList == InitList /\ [][NextList]_vars

----------------------------------------------------------------------------
(* The universe of the join: a primary table with columns k (join) and n, a   *)
(* secondary table with columns f (join) and v, under three pairs of names    *)

c_k == <<"k">>
c_f == <<"f">>

\* the table names: disjoint, the primary slug a prefix of the secondary one,
\* and two tables of one name
JoinNames == { <<<<"c">>, <<"o">>>>, <<<<"o">>, <<"o", "s">>>>, <<<<"o">>, <<"o">>>> }

JoinColumns ==
    <<Column(1, c_k, "int"), Column(1, c_n, "text"), Column(2, c_f, "int"), Column(2, c_v, "int")>>

\* one side of a Filter: its table, its join column and its selected TableColumns
FilterSide(t, join, cols) ==
    [table |-> t, join_field |-> join,
     fields |-> [i \in DOMAIN cols |-> [name |-> cols[i].name, display_name |-> cols[i].display_name,
                                        field_type |-> cols[i].field_type]]]

JoinFilter ==
    [name |-> <<"j">>, slug |-> <<"j">>,
     primary |-> FilterSide(1, c_k, SubSeq(JoinColumns, 1, 2)),
     secondary |-> FilterSide(2, c_f, SubSeq(JoinColumns, 3, 4))]

PrimaryData ==
    { [x \in {c_k, c_n} |-> IF x = c_k THEN Num(1) ELSE Str(<<"a">>)],
      [x \in {c_k, c_n} |-> IF x = c_k THEN Num(1) ELSE Str(<<"b">>)],
      [x \in {c_k, c_n} |-> IF x = c_k THEN Num(2) ELSE Str(<<"a">>)] }

SecondaryData ==
    { [x \in {c_f, c_v} |-> IF x = c_f THEN Num(1) ELSE Num(1)],
      [x \in {c_f, c_v} |-> IF x = c_f THEN Num(1) ELSE Num(2)],
      [x \in {c_f, c_v} |-> IF x = c_f THEN Num(2) ELSE Num(1)] }

EntriesGETs ==
    { <<>>,
      <<Param(FieldKey(SecondarySlug, c_v), <<"1">>)>>,
      <<Param(FieldKey(SecondarySlug, c_v), <<"x">>)>>,
      <<Param(FieldKey(SecondarySlug, c_v), <<"1", ",", "2">>)>>,
      <<Param(FieldKey(PrimarySlug, c_n), <<"a">>)>>,
      <<Param(FieldKey(PrimarySlug, c_n), <<"a", ",", "b">>)>>,
      <<Param(FieldKey(c_zz, c_v), <<"1">>)>> }

EntriesOrders ==
    { EMPTY, FieldKey(SecondarySlug, c_v), DASH \o FieldKey(SecondarySlug, c_v),
      FieldKey(PrimarySlug, c_n) }

EntriesFieldSpecs == { EMPTY, ALL, FieldKey(SecondarySlug, c_v), c_zz }

EntriesRequests ==
    {Request("entries", 1, g, EMPTY, EMPTY, 1, 0) : g \in EntriesGETs}
    \cup {Request("entries", 1, <<>>, f, o, 1, 0) : f \in EntriesFieldSpecs, o \in EntriesOrders}
    \cup {Request("entries", 1, <<>>, EMPTY, o, pg, pp) :
             o \in {EMPTY, FieldKey(SecondarySlug, c_v)}, pg \in {1, 2}, pp \in {1, 2}}
    \cup {Request("entries", 2, <<>>, EMPTY, EMPTY, 1, 0)}

\* FilterViewSet.entries
Entries(r) ==
    /\ Idle
    /\ \E out \in EntriesResponses(r) : resp' = out
    /\ req' = r
    /\ UNCHANGED <<tables, columns, entries, nextId, filter, imports, fieldmaps, databases, audit, perms, tmp, procs, job>>

InitJoin ==
    /\ \E nm \in JoinNames :
          tables = <<[name |-> nm[1], slug |-> nm[1]], [name |-> nm[2], slug |-> nm[2]]>>
    /\ columns = JoinColumns
    /\ entries = <<>>
    /\ nextId = 1
    /\ imports = <<>>
    /\ fieldmaps = <<>>
    /\ filter = JoinFilter
    /\ databases = OneDatabase
    /\ tmp = NoFiles
    /\ procs = NoProcs
    /\ job = NoJob
    /\ audit = NoAudit(Len(tables))
    /\ perms = AllPerms
    /\ req = NoRequest
    /\ resp = NoResponse
    /\ seen = {}

NextJoin ==
    \/ \E d \in PrimaryData : CreateEntry(1, d)
    \/ \E d \in SecondaryData : CreateEntry(2, d)
    \/ \E r \in EntriesRequests : Entries(r) /\ UNCHANGED seen
    \/ Deliver

SpecJoin == InitJoin /\ [][NextJoin]_vars

----------------------------------------------------------------------------
(* Claims about the entry listing (EntryViewSet.list), under SpecList *)

ListAnswered == req.op = "list" /\ req.table \in DOMAIN tables /\ ~Idle

RowIds(rows) == {rows[i].id : i \in DOMAIN rows}
IdSeq(rows) == [i \in DOMAIN rows |-> rows[i].id]

KeyOf(e, c) == IF c \in DOMAIN e.data THEN e.data[c] ELSE NULL

\* the column a parameter key names: the part before its first "__"
KeyColumn(key) == Split(key, DUNDER)[1]
IsNumericColumn(t, c) == c \in DOMAIN TableFields(t) /\ TableFields(t)[c] \in {"int", "float"}
HasComma(raw) == Len(Split(raw, COMMA)) > 1

\* C5: a filter parameter on an int or float column whose value is not a numeric
\* literal is rejected with a ValidationError, a 4xx response, never an unhandled
\* exception.
C5_NonNumericRejected ==
    (/\ ListAnswered
     /\ \E i \in DOMAIN req.GET :
           /\ IsNumericColumn(req.table, KeyColumn(req.GET[i][1]))
           /\ ~HasComma(req.GET[i][2])
           /\ ~IsNumeric(req.GET[i][2]))
    => resp.status = "invalid"

\* the elements of a comma-separated value, coerced to the column's type
Coerced(t, c, raw) ==
    LET parts == Split(raw, COMMA)
    IN  [i \in DOMAIN parts |->
            IF IsNumericColumn(t, c) THEN Num(ParseNat(parts[i])) ELSE Str(parts[i])]

\* C6: for every column type, a filter value with a comma becomes a set-membership
\* predicate over the split, type-coerced elements, never an equality predicate; a
\* value without a comma becomes one equality predicate.
C6_CommaIsMembership ==
    ListAnswered =>
        \A i \in DOMAIN req.GET :
            LET key == req.GET[i][1]
                raw == req.GET[i][2]
                c == KeyColumn(key)
                fd == FilterDict(req.table, req.GET)
                elementsValid == \A x \in Range(Split(raw, COMMA)) :
                                    IsNumericColumn(req.table, c) => IsNumeric(x)
            IN  (c \in DOMAIN TableFields(req.table) /\ elementsValid) =>
                    /\ resp.status # "error"
                    /\ fd.err = ""
                    /\ IF HasComma(raw)
                       THEN /\ (DATA \o key \o IN_SUFFIX) \in DOMAIN fd.d
                            /\ (DATA \o key) \notin DOMAIN fd.d
                            /\ fd.d[DATA \o key \o IN_SUFFIX] = PyList(Coerced(req.table, c, raw))
                       ELSE /\ (DATA \o key) \in DOMAIN fd.d
                            /\ fd.d[DATA \o key] = Coerced(req.table, c, raw)[1]

\* the parameters whose key names a column by its part before the first "__"
RECURSIVE MatchedParams(_, _)
MatchedParams(t, GET) ==
    IF GET = <<>> THEN <<>>
    ELSE IF Head(GET)[1] # EMPTY /\ KeyColumn(Head(GET)[1]) \in DOMAIN TableFields(t)
         THEN <<Head(GET)>> \o MatchedParams(t, Tail(GET))
         ELSE MatchedParams(t, Tail(GET))

\* C7 (as stated): the translator selects the longest column name that is a prefix
\* of the key; in particular a key that is itself a column name filters on that
\* column.
C7_LongestPrefix ==
    (/\ ListAnswered
     /\ resp.status = "ok"
     /\ req.page = 1 /\ req.perPage = 0
     /\ Len(req.GET) = 1
     /\ req.GET[1][1] \in DOMAIN TableFields(req.table)
     /\ ~IsNumericColumn(req.table, req.GET[1][1])
     /\ ~HasComma(req.GET[1][2]))
    => RowIds(resp.rows) =
          {e.id : e \in {x \in Range(TableEntries(req.table)) :
                            KeyOf(x, req.GET[1][1]) = Str(req.GET[1][2])}}

\* C7 (amended): the translator selects the column named by the part of the key
\* before its first "__"; a key whose first part is no column is ignored: no error,
\* no predicate, the same rows as without the parameter; a matched parameter
\* constrains its column in every returned row.
C7_FirstSegmentColumn ==
    ListAnswered =>
        /\ resp \in ListResponses([req EXCEPT !.GET = MatchedParams(req.table, req.GET)])
        /\ MatchedParams(req.table, req.GET) = <<>> => resp.status # "error"
        /\ \A i \in DOMAIN req.GET : \A j \in DOMAIN resp.rows :
              LET key == req.GET[i][1]
                  raw == req.GET[i][2]
              IN  (key # EMPTY /\ KeyColumn(key) \in DOMAIN TableFields(req.table)) =>
                      /\ KeyColumn(key) \in DOMAIN resp.rows[j].data
                      /\ (key = KeyColumn(key)) =>
                            KeyOf(resp.rows[j], key) \in Range(Coerced(req.table, key, raw))

C7_Witness ==
    /\ ListAnswered
    /\ resp.status = "ok"
    /\ Len(resp.rows) > 0
    /\ Len(req.GET) = 2
    /\ Len(MatchedParams(req.table, req.GET)) = 1

\* rows in the order of column c, rows holding equal values in id order
OrderedTiesById(rows, c, desc) ==
    \A i, j \in DOMAIN rows : i < j =>
        LET a == KeyOf(rows[i], c)
            b == KeyOf(rows[j], c)
        IN  IF a = b THEN a # NULL => rows[i].id < rows[j].id
            ELSE IF desc THEN JsonLess(b, a) ELSE JsonLess(a, b)

\* rows in the order of column c, equal values in any order
Ordered(rows, c, desc) ==
    \A i, j \in DOMAIN rows : i < j =>
        IF desc THEN ~JsonLess(KeyOf(rows[i], c), KeyOf(rows[j], c))
        ELSE ~JsonLess(KeyOf(rows[j], c), KeyOf(rows[i], c))

OrderedById(rows) == \A i, j \in DOMAIN rows : i < j => rows[i].id < rows[j].id

HasDash(s) == \E i \in DOMAIN s : s[i] = "-"

\* C8: __order=c on a selected column c returns the entries ascending by c, -c
\* descending, entries with equal c ordered by id; without __order they come by id.
\* (Column names holding "-" are left to C9.)
C8_OrderedWithIdTiebreak ==
    (ListAnswered /\ resp.status = "ok") =>
        LET desc == StartsWith(req.order, DASH)
            c == IF desc THEN From(req.order, 1) ELSE req.order
        IN  IF req.order = EMPTY THEN OrderedById(resp.rows)
            ELSE (c \in Range(ListFields(req.table, req.fields)) /\ ~HasDash(c)) =>
                     OrderedTiesById(resp.rows, c, desc)

\* C9: when the column of __order (one optional leading "-" removed) is not among
\* the selected fields the entries come by id ascending, without error; when it is,
\* the requested ordering is applied, for every column name.
C9_OrderFallback ==
    (ListAnswered /\ req.GET = <<>>) =>
        LET desc == StartsWith(req.order, DASH)
            c == IF desc THEN From(req.order, 1) ELSE req.order
        IN  /\ resp.status # "error"
            /\ resp.status = "ok" =>
                  IF req.order = EMPTY \/ c \notin Range(ListFields(req.table, req.fields))
                  THEN OrderedById(resp.rows)
                  ELSE Ordered(resp.rows, c, desc)

----------------------------------------------------------------------------
(* Claims about the join (FilterViewSet.entries), under SpecJoin *)

EntriesAnswered == req.op = "entries" /\ req.table = 1 /\ ~Idle

EntryById(id) == CHOOSE e \in Range(entries) : e.id = id

PrimaryEntries == Range(TableEntries(filter.primary.table))
SecondaryEntries == Range(TableEntries(filter.secondary.table))

JoinKeyP(e) == KeyOf(e, filter.primary.join_field)
JoinKeyS(e) == KeyOf(e, filter.secondary.join_field)

\* row holds every attribute of entry e under "<slug>__<key>"
HoldsAttributes(row, slug, e, keys) ==
    \A k \in keys \cap DOMAIN e.data :
        /\ FieldKey(slug, k) \in DOMAIN row.data
        /\ row.data[FieldKey(slug, k)] = e.data[k]

\* C1: every row the entries operation returns holds the secondary entry's selected
\* attributes under <S.slug>__<key> and the attributes of a primary entry with the
\* same join value under <P.slug>__<key>.
C1_RowHoldsBothSides ==
    (EntriesAnswered /\ resp.status = "ok" /\ req.fields \in {EMPTY, ALL}) =>
        \A i \in DOMAIN resp.rows :
            LET row == resp.rows[i]
                se == EntryById(row.id)
            IN  /\ HoldsAttributes(row, SecondarySlug, se,
                                   {filter.secondary.fields[j].name : j \in DOMAIN filter.secondary.fields})
                /\ \E pe \in PrimaryEntries :
                      /\ JoinKeyP(pe) = JoinKeyS(se)
                      /\ HoldsAttributes(row, PrimarySlug, pe, DOMAIN pe.data)

\* the matching pairs of the inner join on the two join columns
JoinPairs ==
    {pr \in PrimaryEntries \X SecondaryEntries :
        JoinKeyP(pr[1]) # NULL /\ JoinKeyP(pr[1]) = JoinKeyS(pr[2])}

\* C2: over a fixed store the rows of all pages are exactly the inner join of the
\* two tables on the join columns: one row per matching (primary, secondary) pair,
\* also when several primary entries share a join value.  (Stated for a request
\* without predicates whose result fits one page.)
C2_InnerJoin ==
    (EntriesAnswered /\ resp.status = "ok" /\ req.GET = <<>> /\ resp.total_pages = 1
        /\ req.fields \in {EMPTY, ALL}) =>
        /\ Len(resp.rows) = Cardinality(JoinPairs)
        /\ \A pr \in JoinPairs : \E i \in DOMAIN resp.rows :
              /\ resp.rows[i].id = pr[2].id
              /\ HoldsAttributes(resp.rows[i], PrimarySlug, pr[1], DOMAIN pr[1].data)

\* C3: a secondary row of the page whose join value the Backfill lookup does not
\* hold never crashes the request: the lookup failure (KeyError) is not a response.
C3_OrphanSkipped ==
    EntriesAnswered => ~(resp.status = "error" /\ resp.exc = "KeyError")

----------------------------------------------------------------------------
(* Paging through one result: the pages a client collects for one request      *)
(* (Filter, predicates, order, page size) while no entry is written            *)

PageRecord(r, out) ==
    [family |-> [r EXCEPT !.page = 0], page |-> r.page, ids |-> IdSeq(out.rows),
     count |-> out.count, total_pages |-> out.total_pages]

\* FilterViewSet.entries, the client keeping the page it gets
EntriesPaged(r) ==
    /\ Entries(r)
    /\ seen' = IF resp'.status # "ok" THEN seen
               ELSE IF \E x \in seen : x.family # [r EXCEPT !.page = 0]
                    THEN {PageRecord(r, resp')}
                    ELSE seen \cup {PageRecord(r, resp')}

PagedData ==
    { [x \in {c_f, c_v} |-> IF x = c_f THEN Num(1) ELSE Num(1)],
      [x \in {c_f, c_v} |-> IF x = c_f THEN Num(1) ELSE Num(2)] }

PagedRequests ==
    {Request("entries", 1, <<>>, EMPTY, o, pg, pp) :
        o \in {EMPTY, FieldKey(SecondarySlug, c_v)}, pg \in {1, 2, 3}, pp \in {1, 2}}

InitPages ==
    /\ tables = <<[name |-> <<"c">>, slug |-> <<"c">>], [name |-> <<"o">>, slug |-> <<"o">>]>>
    /\ columns = JoinColumns
    /\ entries = <<>>
    /\ nextId = 1
    /\ imports = <<>>
    /\ fieldmaps = <<>>
    /\ filter = JoinFilter
    /\ databases = OneDatabase
    /\ tmp = NoFiles
    /\ procs = NoProcs
    /\ job = NoJob
    /\ audit = NoAudit(Len(tables))
    /\ perms = AllPerms
    /\ req = NoRequest
    /\ resp = NoResponse
    /\ seen = {}

NextPages ==
    \/ CreateEntry(1, [x \in {c_k, c_n} |-> IF x = c_k THEN Num(1) ELSE Str(<<"a">>)])
    \/ \E d \in PagedData : CreateEntry(2, d)
    \/ \E r \in PagedRequests : EntriesPaged(r)
    \/ Deliver

SpecPages == InitPages /\ [][NextPages]_vars

\* C4: over a fixed store and a fixed request the pages 1..total_pages partition the
\* matching rows: no row is on two pages, every row is on a page, and a page asked
\* for twice holds the same rows in the same order, also when rows share the value
\* of the order column.
C4_PagesPartition ==
    /\ \A a, b \in seen :
          /\ a.page = b.page => a.ids = b.ids
          /\ a.page # b.page => Range(a.ids) \cap Range(b.ids) = {}
    /\ \A a \in seen :
          {x.page : x \in seen} = 1..a.total_pages =>
              Cardinality(UNION {Range(x.ids) : x \in seen}) = a.count

----------------------------------------------------------------------------
(* Slugs and column names *)

UpperCase == <<"A", "B", "C", "D", "E", "F", "G", "H", "I", "J", "K", "L", "M",
              "N", "O", "P", "Q", "R", "S", "T", "U", "V", "W", "X", "Y", "Z">>
LowerCase == <<"a", "b", "c", "d", "e", "f", "g", "h", "i", "j", "k", "l", "m",
              "n", "o", "p", "q", "r", "s", "t", "u", "v", "w", "x", "y", "z">>

\* str.lower, one character
Lower(c) ==
    IF \E i \in DOMAIN UpperCase : UpperCase[i] = c
    THEN LowerCase[CHOOSE i \in DOMAIN UpperCase : UpperCase[i] = c]
    ELSE c

\* \w, \s and "-" of the regular expressions of slugify
IsWord(c) == c \in Range(LowerCase) \cup Digits \cup {"_"}
IsSpace(c) == c = " "
IsSep(c) == IsSpace(c) \/ c = "-"

\* re.sub(r'[^\w\s-]', '', value.lower())
RECURSIVE KeepSlugChars(_)
KeepSlugChars(s) ==
    IF s = <<>> THEN <<>>
    ELSE LET c == Lower(Head(s))
         IN  IF IsWord(c) \/ IsSep(c) THEN <<c>> \o KeepSlugChars(Tail(s))
             ELSE KeepSlugChars(Tail(s))

\* str.strip()
RECURSIVE LStrip(_)
LStrip(s) == IF s # <<>> /\ IsSpace(Head(s)) THEN LStrip(Tail(s)) ELSE s
RECURSIVE RStrip(_)
RStrip(s) == IF s # <<>> /\ IsSpace(s[Len(s)]) THEN RStrip(SubSeq(s, 1, Len(s) - 1)) ELSE s
Strip(s) == RStrip(LStrip(s))

\* re.sub(r'[-\s]+', sep, value): every run of hyphens and spaces becomes one sep
RECURSIVE Collapse(_, _)
Collapse(s, sep) ==
    IF s = <<>> THEN <<>>
    ELSE IF IsSep(Head(s))
         THEN IF Len(s) > 1 /\ IsSep(s[2]) THEN Collapse(Tail(s), sep)
              ELSE sep \o Collapse(Tail(s), sep)
         ELSE <<Head(s)>> \o Collapse(Tail(s), sep)

\* django.utils.text.slugify(value, allow_unicode=True)
Slugify(value) == Collapse(Strip(KeepSlugChars(value)), DASH)

\* Table.save, Database.save and Filter.save: the slug is derived from the name
\* the row is saved with
TableSaveOnce(row) ==
    [row EXCEPT !.slug = IF row.slug = None THEN Slugify(row.name) ELSE row.slug]
TableSave(row) == [row EXCEPT !.slug = Slugify(row.name)]
DatabaseSave(row) == [row EXCEPT !.slug = Slugify(row.name)]
FilterSave(row) == [row EXCEPT !.slug = Slugify(row.name)]

\* utils.snake_case: the lower-case name with its separators turned into "_"
SnakeCase(value) == Collapse(Strip(KeepSlugChars(value)), <<"_">>)

\* TableColumn.objects.get_or_create(table=, name=, display_name=, field_type=):
\* the row is created unless a row with all four values exists.  The new row's
\* slug stays NULL, which unique_together (table, slug) never rejects.
GetOrCreate(cols, t, name, display_name, field_type) ==
    IF \E i \in DOMAIN cols :
          /\ cols[i].table = t /\ cols[i].name = name
          /\ cols[i].display_name = display_name /\ cols[i].field_type = field_type
    THEN cols
    ELSE Append(cols, [Column(t, name, field_type) EXCEPT !.display_name = display_name])

----------------------------------------------------------------------------
(* CSV upload, table creation with import, and materializing a Filter *)

\* a POST request with its request.data
Posted(op, data) == [Request(op, 0, <<>>, EMPTY, EMPTY, 1, 0) EXCEPT !.data = data]

\* one element of request.data["fields"]
Field(original_name, display_name, field_type) ==
    [original_name |-> original_name, display_name |-> display_name,
     field_type |-> field_type, field_format |-> EMPTY]

\* a CsvFieldMap row
FieldMap(csv_import, t, original_name, field_name, field_type) ==
    [csv_import |-> csv_import, table |-> t, original_name |-> original_name,
     field_name |-> field_name, field_type |-> field_type]

\* a CsvImport row as CsvImport.objects.create(file=, delimiter=) leaves it
NewImport(file) ==
    [file |-> file, table |-> 0, errors |-> <<>>, errors_count |-> 0, imports_count |-> 0]

\* the columns after the loop over the request's fields
RECURSIVE ImportColumns(_, _, _)
ImportColumns(cols, t, fields) ==
    IF fields = <<>> THEN cols
    ELSE ImportColumns(GetOrCreate(cols, t, SnakeCase(Head(fields).display_name),
                                   Head(fields).display_name, Head(fields).field_type),
                       t, Tail(fields))

\* the CsvFieldMap rows the loop creates
ImportMaps(t, fields) ==
    [i \in DOMAIN fields |->
        FieldMap(0, t, fields[i].original_name, fields[i].display_name, fields[i].field_type)]

\* utils.import_csv: the coercion of one raw value to a column type
CoerceFails(raw, field_type) == field_type \in {"int", "float"} /\ ~IsNumeric(raw)
CoerceValue(raw, field_type) ==
    IF field_type \in {"int", "float"} THEN Num(ParseNat(raw)) ELSE Str(raw)

\* the mapped fields of one row
Mapped(row, maps) == {i \in DOMAIN maps : maps[i].original_name \in DOMAIN row}
RowFails(row, maps) ==
    \E i \in Mapped(row, maps) : CoerceFails(row[maps[i].original_name], maps[i].field_type)

RECURSIVE RowDataFrom(_, _, _, _)
RowDataFrom(d, row, maps, i) ==
    IF i > Len(maps) THEN d
    ELSE IF i \in Mapped(row, maps)
         THEN RowDataFrom(DictSet(d, SnakeCase(maps[i].field_name),
                                  CoerceValue(row[maps[i].original_name], maps[i].field_type)),
                          row, maps, i + 1)
         ELSE RowDataFrom(d, row, maps, i + 1)
RowData(row, maps) == RowDataFrom(EmptyDict, row, maps, 1)

\* utils.import_csv(reader, table): every row is coerced by the table's field
\* maps; a row with a coercion failure goes to the error list, every other row
\* becomes an Entry
RECURSIVE ImportRows(_, _, _, _)
ImportRows(acc, rows, maps, t) ==
    IF rows = <<>> THEN acc
    ELSE LET row == Head(rows)
         IN  IF RowFails(row, maps)
             THEN ImportRows([acc EXCEPT !.errors = Append(@, [row |-> row, error |-> "coercion"]),
                                         !.errors_count = @ + 1],
                             Tail(rows), maps, t)
             ELSE ImportRows([acc EXCEPT !.created = Append(@, [id |-> acc.next, table |-> t,
                                                                 data |-> RowData(row, maps)]),
                                         !.next = @ + 1,
                                         !.imports_count = @ + 1],
                             Tail(rows), maps, t)

ImportCsv(file, maps, t, first) ==
    ImportRows([errors |-> <<>>, errors_count |-> 0, imports_count |-> 0,
                created |-> <<>>, next |-> first],
               file.rows, SelectSeq2(maps, t), t)

\* Paginator(queryset, 1000) of create_from_filter
materialize_page_size == 1000

\* "{}_{}".format(table_slug, field.name)
MaterialName(slug, name) == slug \o <<"_">> \o name

\* the columns after the loop over the sides of the Filter and their fields
RECURSIVE MaterialColumns(_, _, _, _)
MaterialColumns(cols, t, slug, fs) ==
    IF fs = <<>> THEN cols
    ELSE MaterialColumns(GetOrCreate(cols, t, MaterialName(slug, Head(fs).name),
                                     Head(fs).display_name, Head(fs).field_type),
                         t, slug, Tail(fs))

\* key.replace("data__", "{}_".format(slug)) over the keys of d
Renamed(d, slug) ==
    LET keys == {Replace(k, DATA, slug \o <<"_">>) : k \in DOMAIN d}
    IN  [nk \in keys |-> d[CHOOSE k \in DOMAIN d : Replace(k, DATA, slug \o <<"_">>) = nk]]

\* final_entry of create_from_filter
MaterialData(row, prim) ==
    DictUpdate(Renamed(row.data, SecondarySlug), Renamed(PrimaryValues(prim), PrimarySlug))

\* the lists of attribute maps one page may be written with
MaterialPages(rows, fds) ==
    LET backfill == Backfill(rows, fds)
        V == Range(PageJoinValues(rows).l)
    IN  {[i \in DOMAIN rows |->
             MaterialData(rows[i], f[rows[i].data[DATA \o filter.secondary.join_field]])] :
            f \in {g \in [V -> Range(backfill)] : \A v \in V : g[v] \in Candidates(backfill, v)}}

\* what create_from_filter does after the columns: the exception it ends with
\* and the attribute maps it has written
Materialized(exc, written) == [exc |-> exc, written |-> written]

MaterializeOutcomes ==
    LET names == SecondaryTableFields(AllFields)
        join_values == ValuesOf(PrimaryRows(NewFilterDicts[PrimarySlug]), filter.primary.join_field)
        fds == SetIn(NewFilterDicts, SecondarySlug,
                     DATA \o filter.secondary.join_field \o IN_SUFFIX, join_values)
        found == SecondaryRows(fds[SecondarySlug])
    IN  IF ~ValuesValid(names) THEN {Materialized("FieldError", <<>>)}
        ELSE UNION {
               LET slice == PageSlice(q, 1, materialize_page_size)
                   rows == [i \in DOMAIN slice |-> ValuesRow(slice[i], names)]
               IN  IF LookupFails(rows, fds) THEN {Materialized("KeyError", <<>>)}
                   ELSE {Materialized("", m) : m \in MaterialPages(rows, fds)}
               : q \in OrderBy(found, DATA \o filter.secondary.join_field)}

\* the Entry rows with the attribute maps ds, numbered from first
NewEntries(ds, t, first) ==
    [i \in DOMAIN ds |-> [id |-> first + i - 1, table |-> t, data |-> ds[i]]]

MaxImports == 2

\* CsvImportViewSet.create: the upload and the preview of its header
Upload(file) ==
    /\ Idle
    /\ Len(imports) < MaxImports
    /\ imports' = Append(imports, NewImport(file))
    /\ fieldmaps' = fieldmaps \o
          [i \in DOMAIN file.header |->
              FieldMap(Len(imports) + 1, 0, file.header[i], file.header[i], "text")]
    /\ req' = Posted("upload", NoData)
    /\ resp' = Done([NoBody EXCEPT !.id = Len(imports) + 1])
    /\ UNCHANGED <<tables, columns, entries, nextId, filter, databases, audit, perms, tmp, procs, job, seen>>

\* a CsvImport row saved with its table only
StaleImport(imp, out, t) == [imp EXCEPT !.table = t]

\* csv_import.errors = errors; ...; csv_import.save()
SavedImport(imp, out, t) ==
    [imp EXCEPT !.errors = out.errors, !.errors_count = out.errors_count,
                !.imports_count = out.imports_count, !.table = t]

\* TableViewSet.csv_manual_import: the rows of the file go into table t
ManualImport(t, file) ==
    /\ Idle
    /\ Len(imports) < MaxImports
    /\ IF t \notin DOMAIN tables
       THEN /\ resp' = NotFound
            /\ UNCHANGED <<entries, nextId, imports>>
       ELSE LET out == ImportCsv(file, fieldmaps, t, nextId)
            IN  /\ imports' = Append(imports, SavedImport(NewImport(file), out, t))
                /\ entries' = entries \o out.created
                /\ nextId' = out.next
                /\ resp' = Done([id |-> Len(imports) + 1, errors |-> out.errors,
                                 errors_count |-> out.errors_count,
                                 imports_count |-> out.imports_count])
    /\ req' = [Posted("manual-import", NoData) EXCEPT !.table = t]
    /\ seen' = {}
    /\ UNCHANGED <<tables, columns, filter, fieldmaps, databases, audit, perms, tmp, procs, job>>

\* TableViewSet.create
TableCreate(name, fields, import_id) ==
    /\ Idle
    /\ Len(tables) < MaxTables
    /\ LET t == Len(tables) + 1
       IN  /\ tables' = Append(tables, TableSave([name |-> name, slug |-> None]))
           /\ IF import_id = 0
              THEN /\ resp' = Done([NoBody EXCEPT !.id = t])
                   /\ UNCHANGED <<columns, entries, nextId, imports, fieldmaps>>
              ELSE IF import_id \notin DOMAIN imports
              THEN /\ resp' = Crash("DoesNotExist")
                   /\ UNCHANGED <<columns, entries, nextId, imports, fieldmaps>>
              ELSE LET maps == fieldmaps \o ImportMaps(t, fields)
                       out == ImportCsv(imports[import_id].file, maps, t, nextId)
                   IN  /\ columns' = ImportColumns(columns, t, fields)
                       /\ fieldmaps' = maps
                       /\ entries' = entries \o out.created
                       /\ nextId' = out.next
                       /\ imports' = [imports EXCEPT ![import_id] = SavedImport(@, out, t)]
                       /\ resp' = Done([id |-> t, errors |-> out.errors,
                                        errors_count |-> out.errors_count,
                                        imports_count |-> out.imports_count])
    /\ req' = Posted("create", [NoData EXCEPT !.name = name, !.fields = fields,
                                               !.import_id = import_id])
    /\ audit' = TableStamped(Len(tables) + 1)
    /\ seen' = {}
    /\ UNCHANGED <<filter, databases, perms, tmp, procs, job>>

\* TableViewSet.create_from_filter
CreateFromFilter(table_name, filter_id) ==
    /\ Idle
    /\ Len(tables) < MaxTables
    /\ LET t == Len(tables) + 1
       IN  /\ tables' = Append(tables, TableSave([name |-> table_name, slug |-> None]))
           /\ IF filter_id # 1
              THEN /\ resp' = Crash("DoesNotExist")
                   /\ UNCHANGED <<columns, entries, nextId>>
              ELSE /\ columns' =
                         MaterialColumns(MaterialColumns(columns, t, PrimarySlug, filter.primary.fields),
                                         t, SecondarySlug, filter.secondary.fields)
                   /\ \E out \in MaterializeOutcomes :
                         /\ entries' = entries \o NewEntries(out.written, t, nextId)
                         /\ nextId' = nextId + Len(out.written)
                         /\ resp' = IF out.exc # "" THEN Crash(out.exc)
                                    ELSE Done([NoBody EXCEPT !.id = t])
    /\ req' = Posted("from-filter", [NoData EXCEPT !.name = table_name, !.filter_id = filter_id])
    /\ audit' = TableStamped(Len(tables) + 1)
    /\ seen' = {}
    /\ UNCHANGED <<filter, imports, fieldmaps, databases, perms, tmp, procs, job>>

----------------------------------------------------------------------------
(* The universe of schema changes: a Filter over two tables that both have a  *)
(* column n, one uploaded file, and the tables created from them              *)

c_a == <<"a">>
c_b == <<"b">>

SchemaNames == { <<<<"c">>, <<"o">>>>, <<<<"o">>, <<"o">>>> }

SchemaColumns ==
    <<Column(1, c_k, "int"), Column(1, c_n, "text"), Column(2, c_f, "int"), Column(2, c_n, "int")>>

SchemaFilter ==
    [name |-> <<"j">>, slug |-> <<"j">>,
     primary |-> FilterSide(1, c_k, SubSeq(SchemaColumns, 1, 2)),
     secondary |-> FilterSide(2, c_f, SubSeq(SchemaColumns, 3, 4))]

SchemaPrimaryData == { [x \in {c_k, c_n} |-> IF x = c_k THEN Num(1) ELSE Str(<<"a">>)] }
SchemaSecondaryData == { [x \in {c_f, c_n} |-> IF x = c_f THEN Num(1) ELSE Num(2)] }

\* a file of two rows, the second with a non-numeric b
SchemaFile ==
    [header |-> <<c_a, c_b>>,
     rows |-> << [x \in {c_a, c_b} |-> IF x = c_a THEN <<"x">> ELSE <<"1">>],
                 [x \in {c_a, c_b} |-> IF x = c_a THEN <<"y">> ELSE <<"o", "o", "p", "s">>] >>]

\* the same rows with the non-numeric one first
SchemaFiles ==
    { SchemaFile, [SchemaFile EXCEPT !.rows = <<SchemaFile.rows[2], SchemaFile.rows[1]>>] }

\* the field lists of a create request: two columns, two fields of one display
\* name and two types, the same field twice
SchemaFieldLists ==
    { <<Field(c_a, c_a, "text"), Field(c_b, c_b, "int")>>,
      <<Field(c_a, c_a, "text"), Field(c_b, c_a, "int")>>,
      <<Field(c_a, <<"A", " ", "b">>, "text"), Field(c_b, <<"A", " ", "b">>, "text")>> }

SchemaTableNames == { <<"n", "e", "w">>, <<"O", " ", "s">> }

InitSchema ==
    /\ \E nm \in SchemaNames :
          tables = <<[name |-> nm[1], slug |-> nm[1]], [name |-> nm[2], slug |-> nm[2]]>>
    /\ columns = SchemaColumns
    /\ entries = <<>>
    /\ nextId = 1
    /\ imports = <<>>
    /\ fieldmaps = <<>>
    /\ filter = SchemaFilter
    /\ databases = OneDatabase
    /\ tmp = NoFiles
    /\ procs = NoProcs
    /\ job = NoJob
    /\ audit = NoAudit(Len(tables))
    /\ perms = AllPerms
    /\ req = NoRequest
    /\ resp = NoResponse
    /\ seen = {}

NextSchema ==
    \/ \E d \in SchemaPrimaryData : CreateEntry(1, d)
    \/ \E d \in SchemaSecondaryData : CreateEntry(2, d)
    \/ Upload(SchemaFile)
    \/ \E nm \in SchemaTableNames, fs \in SchemaFieldLists, im \in 0..MaxImports + 1 :
          TableCreate(nm, fs, im)
    \/ \E nm \in SchemaTableNames, f \in {1, 2} : CreateFromFilter(nm, f)
    \/ Deliver

SpecSchema == InitSchema /\ [][NextSchema]_vars

----------------------------------------------------------------------------
(* Claims about the schema, under SpecSchema *)

SameTable(i, j) == i # j /\ columns[i].table = columns[j].table

\* C10: in every reachable state no two TableColumns of one Table have names
\* that yield the same slug.
C10_UniqueColumnSlugs ==
    \A i, j \in DOMAIN columns :
        SameTable(i, j) => Slugify(columns[i].name) # Slugify(columns[j].name)

----------------------------------------------------------------------------
(* The two read paths together: the entry listing over its universe and the   *)
(* join over its universe                                                     *)

InitReads == InitList \/ InitJoin

\* the Filter reads with query parameters
NextFiltered ==
    \/ \E d \in PrimaryData : CreateEntry(1, d)
    \/ \E d \in SecondaryData : CreateEntry(2, d)
    \/ \E g \in EntriesGETs :
          Entries(Request("entries", 1, g, EMPTY, EMPTY, 1, 0)) /\ UNCHANGED seen
    \/ Deliver

NextReads ==
    \/ Len(tables) = 1 /\ NextList
    \/ Len(tables) = 2 /\ NextFiltered

SpecReads == InitReads /\ [][NextReads]_vars

\* the Filter field a parameter key names: its first two parts
KeyField(key) == Join(Take(Split(key, DUNDER), 2), DUNDER)

\* the parameters of a Filter read whose key names a field of the Filter
RECURSIVE MatchedFields(_)
MatchedFields(GET) ==
    IF GET = <<>> THEN <<>>
    ELSE IF Head(GET)[1] # EMPTY /\ KeyField(Head(GET)[1]) \in Range(AllFields)
         THEN <<Head(GET)>> \o MatchedFields(Tail(GET))
         ELSE MatchedFields(Tail(GET))

\* the elements of a comma-separated value, coerced to the type of a Filter field
FieldCoerced(field, raw) ==
    LET parts == Split(raw, COMMA)
    IN  [i \in DOMAIN parts |->
            IF FieldTypes[field] \in {"int", "float"} THEN Num(ParseNat(parts[i]))
            ELSE Str(parts[i])]

\* C7 (amended), the Filter read path: the field is named by the first two parts
\* of the key; a key that names no field of the Filter is ignored, and a matched
\* parameter constrains its column in every returned row.
C7_FirstPartsField ==
    EntriesAnswered =>
        /\ resp \in EntriesResponses([req EXCEPT !.GET = MatchedFields(req.GET)])
        /\ \A i \in DOMAIN req.GET : \A j \in DOMAIN resp.rows :
              LET key == req.GET[i][1]
                  raw == req.GET[i][2]
                  parts == Split(key, DUNDER)
              IN  (key # EMPTY /\ key = KeyField(key) /\ key \in Range(AllFields)) =>
                      /\ parts[1] = SecondarySlug =>
                            KeyOf(EntryById(resp.rows[j].id), parts[2]) \in Range(FieldCoerced(key, raw))
                      /\ (parts[1] = PrimarySlug /\ PrimarySlug # SecondarySlug) =>
                            /\ key \in DOMAIN resp.rows[j].data
                            /\ resp.rows[j].data[key] \in Range(FieldCoerced(key, raw))

\* C7 (amended), both read paths
C7_KeyPartsColumn == C7_FirstSegmentColumn /\ C7_FirstPartsField

----------------------------------------------------------------------------
(* Claims about column creation, under SpecSchema *)

CreateAnswered == req.op = "create" /\ ~Idle /\ req.data.import_id \in DOMAIN imports

\* the column name a field of a create request asks for
FieldName(f) == SnakeCase(f.display_name)

\* field j of the request asks for a column that differs from the one field i
\* made and has a name of the same slug
Collides(fields, i, j) ==
    /\ i < j
    /\ Slugify(FieldName(fields[i])) = Slugify(FieldName(fields[j]))
    /\ fields[i].field_type # fields[j].field_type

\* C11: creating a TableColumn whose slug collides with a column of the same
\* Table fails with a validation error, and the Table keeps its columns as they
\* were: it never holds two columns of one slug.
C11_CollidingColumnRejected ==
    (/\ CreateAnswered
     /\ \E i, j \in DOMAIN req.data.fields : Collides(req.data.fields, i, j))
    => /\ resp.status = "invalid"
       /\ \A i, j \in DOMAIN columns :
             (SameTable(i, j) /\ columns[i].table = Len(tables)) =>
                 Slugify(columns[i].name) # Slugify(columns[j].name)

----------------------------------------------------------------------------
(* Renaming: the update operations of the Table, Database and Filter viewsets *)

\* TableViewSet.update: the table is saved with the new name
TableUpdate(t, name) ==
    /\ Idle
    /\ IF t \in DOMAIN tables
       THEN /\ tables' = [tables EXCEPT ![t] = TableSave([@ EXCEPT !.name = name])]
            /\ resp' = Done([NoBody EXCEPT !.id = t])
       ELSE /\ resp' = NotFound
            /\ UNCHANGED tables
    /\ audit' = IF t \in DOMAIN tables THEN TableStamped(t) ELSE audit
    /\ req' = [Posted("update", [NoData EXCEPT !.name = name]) EXCEPT !.table = t]
    /\ seen' = {}
    /\ UNCHANGED <<columns, entries, nextId, filter, imports, fieldmaps, databases, perms, tmp, procs, job>>

\* DatabaseViewSet.update
DatabaseUpdate(d, name) ==
    /\ Idle
    /\ IF d \in DOMAIN databases
       THEN /\ databases' = [databases EXCEPT ![d] = DatabaseSave([@ EXCEPT !.name = name])]
            /\ resp' = Done([NoBody EXCEPT !.id = d])
       ELSE /\ resp' = NotFound
            /\ UNCHANGED databases
    /\ req' = [Posted("update-database", [NoData EXCEPT !.name = name]) EXCEPT !.table = d]
    /\ UNCHANGED <<tables, columns, entries, nextId, filter, imports, fieldmaps, audit, perms, tmp, procs, job, seen>>

\* FilterViewSet.update of the Filter (pk 1)
FilterUpdate(f, name) ==
    /\ Idle
    /\ IF f = 1
       THEN /\ filter' = FilterSave([filter EXCEPT !.name = name])
            /\ resp' = Done([NoBody EXCEPT !.id = f])
       ELSE /\ resp' = NotFound
            /\ UNCHANGED filter
    /\ req' = [Posted("update-filter", [NoData EXCEPT !.name = name]) EXCEPT !.table = f]
    /\ seen' = {}
    /\ UNCHANGED <<tables, columns, entries, nextId, imports, fieldmaps, databases, audit, perms, tmp, procs, job>>

\* the names rows are saved with: upper case, spaces, runs of separators,
\* characters a slug drops
SavedNames ==
    { <<"O", " ", "s">>, <<"a", "-", " ", "-", "b">>, <<" ", "n", "!">> }

InitNames ==
    /\ tables = <<[name |-> <<"c">>, slug |-> <<"c">>], [name |-> <<"o">>, slug |-> <<"o">>]>>
    /\ columns = JoinColumns
    /\ entries = <<>>
    /\ nextId = 1
    /\ imports = <<>>
    /\ fieldmaps = <<>>
    /\ filter = JoinFilter
    /\ databases = OneDatabase
    /\ tmp = NoFiles
    /\ procs = NoProcs
    /\ job = NoJob
    /\ audit = NoAudit(Len(tables))
    /\ perms = AllPerms
    /\ req = NoRequest
    /\ resp = NoResponse
    /\ seen = {}

NextNames ==
    \/ \E nm \in SavedNames : TableCreate(nm, <<>>, 0)
    \/ \E t \in 1..MaxTables, nm \in SavedNames : TableUpdate(t, nm)
    \/ \E d \in {1, 2}, nm \in SavedNames : DatabaseUpdate(d, nm)
    \/ \E f \in {1, 2}, nm \in SavedNames : FilterUpdate(f, nm)
    \/ Deliver

SpecNames == InitNames /\ [][NextNames]_vars

\* characters that need no escaping in a URL path (the names here are ASCII)
UrlSafe(s) == \A i \in DOMAIN s : IsWord(s[i]) \/ s[i] = "-"

\* C12: in every state the slug of every Table, every Database and the Filter is
\* the slugified form of its current name, whatever names and slugs it had
\* before, and that form is URL-safe.
C12_SlugFollowsName ==
    /\ \A t \in DOMAIN tables :
          tables[t].slug = Slugify(tables[t].name) /\ UrlSafe(tables[t].slug)
    /\ \A d \in DOMAIN databases :
          databases[d].slug = Slugify(databases[d].name) /\ UrlSafe(databases[d].slug)
    /\ filter.slug = Slugify(filter.name) /\ UrlSafe(filter.slug)

\* a table, the database and the filter have been renamed at least twice in all,
\* to names that are not their own slugs
C12_Witness ==
    /\ req.op = "update" /\ resp.status = "ok"
    /\ tables[1].name = <<"a", "-", " ", "-", "b">> /\ tables[1].slug = <<"a", "-", "b">>
    /\ databases[1].name = <<"O", " ", "s">> /\ databases[1].slug = <<"o", "-", "s">>
    /\ filter.name = <<" ", "n", "!">> /\ filter.slug = <<"n">>

----------------------------------------------------------------------------
(* TableViewSet.csv_export, statement by statement.  Every worker serves    *)
(* one request at a time and the workers interleave; /tmp is shared.  A     *)
(* file is a path, the inode the path names, and the lines it holds; a line *)
(* is the sequence of the values csv writes the text of.  The lines of one  *)
(* export fit the buffer of its file object, so they reach the file when    *)
(* the with block closes it.                                                 *)

\* the most export requests started in one behaviour
MaxExports == 2

\* datetime.now().strftime("%d.%m.%Y"): the days an export may start on
Days == {<<"0", "3", ".", "1", "1", ".", "2", "0", "2", "6">>}

\* "{}__{}.csv".format(table.name, day)
FileName(name, day) == name \o DUNDER \o day \o <<".", "c", "s", "v">>

\* the file a path names, and whether it names one
FileAt(path) == CHOOSE f \in tmp.files : f.path = path
Exists(path) == \E f \in tmp.files : f.path = path

\* open(path, "w"): an existing file is truncated and keeps its inode, a
\* missing one is created
OpenedForWrite(path, ino) ==
    IF Exists(path)
    THEN (tmp.files \ {FileAt(path)}) \cup {[FileAt(path) EXCEPT !.content = <<>>]}
    ELSE tmp.files \cup {[path |-> path, ino |-> ino, content |-> <<>>]}

\* the buffer written at offset 0 of a file that holds content
Overlay(lines, content) ==
    IF Len(lines) >= Len(content) THEN lines
    ELSE lines \o SubSeq(content, Len(lines) + 1, Len(content))

\* closing a file object opened for writing: the buffer goes to its inode,
\* which the path may no longer name
Flushed(path, ino, lines) ==
    IF Exists(path) /\ FileAt(path).ino = ino
    THEN (tmp.files \ {FileAt(path)})
            \cup {[FileAt(path) EXCEPT !.content = Overlay(lines, FileAt(path).content)]}
    ELSE tmp.files

\* os.remove(path)
Removed(path) == tmp.files \ {FileAt(path)}

\* table.fields.values_list("name", flat=True): the query has no ORDER BY,
\* so the names come in any order
FieldNames(t) ==
    {[i \in DOMAIN p |-> columns[p[i]].name] : p \in Perms(TableColumns(t))}

\* DictWriter._dict_to_list: a key that is no fieldname raises ValueError
\* (extrasaction is "raise"), a missing key is written as restval ""
WrongFields(fieldnames, data) == DOMAIN data \ Range(fieldnames)
DictToList(fieldnames, data) ==
    [i \in DOMAIN fieldnames |->
        IF fieldnames[i] \in DOMAIN data THEN data[fieldnames[i]] ELSE Str(EMPTY)]

\* writer.writeheader(): the row that maps every fieldname to itself
HeaderLine(fieldnames) == [i \in DOMAIN fieldnames |-> Str(fieldnames[i])]

\* for row in queryset: writer.writerow(row.data), up to the first row that
\* raises
RECURSIVE WriteRows(_, _, _)
WriteRows(fieldnames, rows, lines) ==
    IF rows = <<>> THEN [lines |-> lines, exc |-> ""]
    ELSE IF WrongFields(fieldnames, Head(rows).data) # {}
    THEN [lines |-> lines, exc |-> "ValueError"]
    ELSE WriteRows(fieldnames, Tail(rows),
                   Append(lines, DictToList(fieldnames, Head(rows).data)))

\* what the with block may write: the header, then the rows of
\* table.entries.filter(**d), which has no ORDER BY either
Written(t, d) ==
    {WriteRows(fn, rows, <<HeaderLine(fn)>>) : fn \in FieldNames(t), rows \in Perms(Filtered(t, d))}

Failed(w, exc) == [procs[w] EXCEPT !.pc = "done", !.status = "error", !.exc = exc]

\* table = Table.objects.get(pk=pk); the translation of request.GET; file_name
ExportStart(w, t, GET, day) ==
    /\ procs[w].pc = "idle"
    /\ tmp.runs < MaxExports
    /\ tmp' = [tmp EXCEPT !.runs = @ + 1]
    /\ procs' = [procs EXCEPT ![w] =
          IF t \notin DOMAIN tables THEN Failed(w, "DoesNotExist")
          ELSE IF FilterDict(t, GET).err # "" THEN Failed(w, FilterDict(t, GET).err)
          ELSE [NoProc EXCEPT !.pc = "open", !.table = t, !.d = FilterDict(t, GET).d,
                              !.path = FileName(tables[t].name, day), !.ino = tmp.runs + 1]]
    /\ UNCHANGED <<tables, columns, entries, nextId, filter, imports, fieldmaps, databases, audit, perms,
                   job, req, resp, seen>>

\* open("/tmp/" + file_name, "w")
ExportOpen(w) ==
    /\ procs[w].pc = "open"
    /\ tmp' = [tmp EXCEPT !.files = OpenedForWrite(procs[w].path, procs[w].ino)]
    /\ procs' = [procs EXCEPT ![w].pc = "write",
                              ![w].ino = IF Exists(procs[w].path)
                                         THEN FileAt(procs[w].path).ino ELSE procs[w].ino]
    /\ UNCHANGED <<tables, columns, entries, nextId, filter, imports, fieldmaps, databases, audit, perms,
                   job, req, resp, seen>>

\* the body of the with block and the close that ends it; an exception of
\* writerow leaves the block, which closes the file, and ends the request
ExportWrite(w) ==
    /\ procs[w].pc = "write"
    /\ \E out \in Written(procs[w].table, procs[w].d) :
          /\ tmp' = [tmp EXCEPT !.files = Flushed(procs[w].path, procs[w].ino, out.lines)]
          /\ procs' = [procs EXCEPT ![w] =
                IF out.exc # "" THEN [Failed(w, out.exc) EXCEPT !.lines = out.lines]
                ELSE [procs[w] EXCEPT !.pc = "read", !.lines = out.lines]]
    /\ UNCHANGED <<tables, columns, entries, nextId, filter, imports, fieldmaps, databases, audit, perms,
                   job, req, resp, seen>>

\* open("/tmp/" + file_name, "rb") and HttpResponse(csv_export_file.read(), ...)
ExportRead(w) ==
    /\ procs[w].pc = "read"
    /\ procs' = [procs EXCEPT ![w] =
          IF ~Exists(procs[w].path) THEN Failed(w, "FileNotFoundError")
          ELSE [procs[w] EXCEPT !.pc = "remove", !.content = FileAt(procs[w].path).content]]
    /\ UNCHANGED <<tables, columns, entries, nextId, filter, imports, fieldmaps, databases, audit, perms,
                   job, tmp, req, resp, seen>>

\* os.remove("/tmp/" + file_name); return response
ExportRemove(w) ==
    /\ procs[w].pc = "remove"
    /\ IF Exists(procs[w].path)
       THEN /\ tmp' = [tmp EXCEPT !.files = Removed(procs[w].path)]
            /\ procs' = [procs EXCEPT ![w].pc = "done", ![w].status = "ok"]
       ELSE /\ procs' = [procs EXCEPT ![w] = [Failed(w, "FileNotFoundError") EXCEPT !.content = <<>>]]
            /\ UNCHANGED tmp
    /\ UNCHANGED <<tables, columns, entries, nextId, filter, imports, fieldmaps, databases, audit, perms,
                   job, req, resp, seen>>

\* the client takes the response of worker w
ExportReturn(w) ==
    /\ procs[w].pc = "done"
    /\ procs' = [procs EXCEPT ![w] = NoProc]
    /\ UNCHANGED <<tables, columns, entries, nextId, filter, imports, fieldmaps, databases, audit, perms,
                   job, tmp, req, resp, seen>>

\* one table with an int and a text column
ExportColumns == <<Column(1, c_v, "int"), Column(1, c_n, "text")>>

\* the stores exports run over; the last holds an Entry with a key, zz, that
\* is not a column of its table (any more)
Row(id, data) == [id |-> id, table |-> 1, data |-> data]
FreshData(v, n) == [k \in {c_v, c_n} |-> IF k = c_v THEN Num(v) ELSE Str(n)]
StaleData == [k \in {c_n, c_zz} |-> Str(<<"b">>)]
ExportStores ==
    { <<>>,
      <<Row(1, FreshData(1, <<"a">>))>>,
      <<Row(1, FreshData(1, <<"a">>)), Row(2, FreshData(2, <<"b">>))>>,
      <<Row(1, FreshData(1, <<"a">>)), Row(2, StaleData)>> }

ExportGETs == { <<>>, <<Param(c_v, <<"1">>)>>, <<Param(c_v, <<"x">>)>> }

InitExport ==
    /\ tables = ListTables
    /\ columns = ExportColumns
    /\ entries \in ExportStores
    /\ nextId = Len(entries) + 1
    /\ imports = <<>>
    /\ fieldmaps = <<>>
    /\ filter = NoFilter
    /\ databases = OneDatabase
    /\ tmp = NoFiles
    /\ procs = NoProcs
    /\ job = NoJob
    /\ audit = NoAudit(Len(tables))
    /\ perms = AllPerms
    /\ req = NoRequest
    /\ resp = NoResponse
    /\ seen = {}

NextExport ==
    \/ \E w \in Workers, t \in {1, 2}, g \in ExportGETs, day \in Days : ExportStart(w, t, g, day)
    \/ \E w \in Workers : ExportOpen(w)
    \/ \E w \in Workers : ExportWrite(w)
    \/ \E w \in Workers : ExportRead(w)
    \/ \E w \in Workers : ExportRemove(w)
    \/ \E w \in Workers : ExportReturn(w)

SpecExport == InitExport /\ [][NextExport]_vars

\* worker w has opened its file and has not yet removed it or failed
HoldsFile(w) == procs[w].pc \in {"write", "read", "remove"}

\* C13: every file of /tmp belongs to an export request that is still between
\* its open and its remove: once a request has ended, with a response or with an
\* exception, the file it wrote is gone.
C13_TempFileRemoved ==
    \A f \in tmp.files : \E w \in Workers : HoldsFile(w) /\ procs[w].path = f.path

\* C14: a request that ends does not fail on its file, and its response holds
\* exactly the lines it wrote, whatever the other worker did meanwhile.
C14_ExportsIsolated ==
    \A w \in Workers :
        procs[w].pc = "done" =>
            /\ procs[w].exc # "FileNotFoundError"
            /\ procs[w].status = "ok" => procs[w].content = procs[w].lines

\* the lines of an export of t under d that leaves stale keys out: the header
\* with the column names, then one line per matching Entry
ExpectedLines(t, d) ==
    {<<HeaderLine(fn)>> \o [i \in DOMAIN rows |-> DictToList(fn, rows[i].data)] :
        fn \in FieldNames(t), rows \in Perms(Filtered(t, d))}

\* C15: once the with block of a table export is over, what it wrote is the
\* header and one line per matching Entry with the values of the field list,
\* and no stale key made it fail.
C15_ExportRows ==
    \A w \in Workers :
        (procs[w].table # 0 /\ procs[w].pc \in {"read", "remove", "done"}) =>
            /\ procs[w].exc # "ValueError"
            /\ procs[w].lines \in ExpectedLines(procs[w].table, procs[w].d)

----------------------------------------------------------------------------
(* TableViewSet.create_from_filter, page by page.  Every page is one query  *)
(* of the secondary rows (LIMIT/OFFSET over the ordered result) and one     *)
(* bulk_create; other requests see the store between two pages.             *)

\* the rows of one page, in place of the materialize_page_size rows of the
\* code, so that a run over a few rows has more than one page
PageRows == 2

\* filter_dict after the secondary "__in" entry is set: join_values is a lazy
\* queryset, evaluated inside every query that uses it
MaterialDicts ==
    SetIn(NewFilterDicts, SecondarySlug, DATA \o filter.secondary.join_field \o IN_SUFFIX,
          ValuesOf(PrimaryRows(NewFilterDicts[PrimarySlug]), filter.primary.join_field))

\* result_values, before it is ordered
MaterialFound == SecondaryRows(MaterialDicts[SecondarySlug])

\* paginator.get_page(number).object_list: one query, ordered by the join
\* field alone
MaterialPage(number) ==
    {LET slice == PageSlice(q, number, PageRows)
     IN  [i \in DOMAIN slice |-> ValuesRow(slice[i], SecondaryTableFields(AllFields))] :
        q \in OrderBy(MaterialFound, DATA \o filter.secondary.join_field)}

\* bulk_create(objs) that stops at row failAt with a database error and leaves
\* the rows before it in the table
BulkCreateUnsafe(store, objs, failAt) ==
    IF failAt = 0 THEN store \o objs ELSE store \o SubSeq(objs, 1, failAt - 1)

\* Entry.objects.bulk_create(objs): the inserts run inside transaction.atomic,
\* so a database error at row failAt (0: none) rolls every row of the call back
BulkCreate(store, objs, failAt) ==
    IF failAt = 0 THEN store \o objs ELSE store

Ended(exc) == [job EXCEPT !.pc = "done", !.exc = exc]

\* the handler up to the Paginator: the new Table, the Filter, the columns,
\* the queries it builds and the count
MaterializeStart(table_name, filter_id) ==
    /\ job.pc = "idle"
    /\ Len(tables) < MaxTables
    /\ tables' = Append(tables, TableSave([name |-> table_name, slug |-> None]))
    /\ IF filter_id # 1
       THEN /\ job' = [Ended("DoesNotExist") EXCEPT !.table = Len(tables) + 1]
            /\ UNCHANGED columns
       ELSE /\ columns' =
                  MaterialColumns(MaterialColumns(columns, Len(tables) + 1, PrimarySlug,
                                                  filter.primary.fields),
                                  Len(tables) + 1, SecondarySlug, filter.secondary.fields)
            /\ job' = IF ~ValuesValid(SecondaryTableFields(AllFields))
                      THEN [Ended("FieldError") EXCEPT !.table = Len(tables) + 1]
                      ELSE [NoJob EXCEPT !.pc = "pages", !.table = Len(tables) + 1, !.page = 1,
                                         !.pages = NumPages(Cardinality(MaterialFound), PageRows)]
    /\ audit' = TableStamped(Len(tables) + 1)
    /\ UNCHANGED <<entries, nextId, filter, imports, fieldmaps, databases, perms, tmp, procs,
                   req, resp, seen>>

\* one turn of the loop over paginator.page_range
MaterializePage ==
    /\ job.pc = "pages"
    /\ \E rows \in MaterialPage(job.page) :
          IF LookupFails(rows, MaterialDicts)
          THEN /\ job' = Ended("KeyError")
               /\ UNCHANGED <<entries, nextId>>
          ELSE \E m \in MaterialPages(rows, MaterialDicts), failAt \in 0..Len(rows) :
                  /\ entries' = BulkCreate(entries, NewEntries(m, job.table, nextId), failAt)
                  /\ nextId' = IF failAt = 0 THEN nextId + Len(m) ELSE nextId
                  /\ job' = IF failAt # 0 THEN Ended("DatabaseError")
                            ELSE [job EXCEPT !.batches = Append(@, m),
                                             !.page = @ + 1,
                                             !.pc = IF job.page = job.pages THEN "done" ELSE "pages"]
    /\ UNCHANGED <<tables, columns, filter, imports, fieldmaps, databases, audit, perms, tmp, procs,
                   req, resp, seen>>

\* the client takes the response
MaterializeReturn ==
    /\ job.pc = "done"
    /\ job' = NoJob
    /\ UNCHANGED <<tables, columns, entries, nextId, filter, imports, fieldmaps, databases, audit, perms,
                   tmp, procs, req, resp, seen>>

\* the stores a Filter is materialized over: primary entries in table 1,
\* secondary entries in table 2
Entry(id, t, data) == [id |-> id, table |-> t, data |-> data]
PrimaryEntry(id, k) == Entry(id, 1, [x \in {c_k, c_n} |-> IF x = c_k THEN Num(k) ELSE Str(<<"a">>)])
SecondaryEntry(id, f, n) == Entry(id, 2, [x \in {c_f, c_n} |-> IF x = c_f THEN Num(f) ELSE Num(n)])
MaterializeStores ==
    { <<>>,
      <<PrimaryEntry(1, 1), SecondaryEntry(2, 1, 1)>>,
      <<PrimaryEntry(1, 1), SecondaryEntry(2, 1, 1), SecondaryEntry(3, 1, 2), SecondaryEntry(4, 1, 3)>>,
      <<PrimaryEntry(1, 1), PrimaryEntry(2, 2), SecondaryEntry(3, 1, 1), SecondaryEntry(4, 2, 2),
        SecondaryEntry(5, 3, 3)>> }

InitMaterialize ==
    /\ \E nm \in SchemaNames :
          tables = <<[name |-> nm[1], slug |-> nm[1]], [name |-> nm[2], slug |-> nm[2]]>>
    /\ columns = SchemaColumns
    /\ entries \in MaterializeStores
    /\ nextId = Len(entries) + 1
    /\ imports = <<>>
    /\ fieldmaps = <<>>
    /\ filter = SchemaFilter
    /\ databases = OneDatabase
    /\ tmp = NoFiles
    /\ procs = NoProcs
    /\ job = NoJob
    /\ audit = NoAudit(Len(tables))
    /\ perms = AllPerms
    /\ req = NoRequest
    /\ resp = NoResponse
    /\ seen = {}

NextMaterialize ==
    \/ \E nm \in SchemaTableNames, f \in {1, 2} : MaterializeStart(nm, f)
    \/ MaterializePage
    \/ MaterializeReturn

SpecMaterialize == InitMaterialize /\ [][NextMaterialize]_vars

\* the run has written every page and answers with the id of the new Table
Completed == job.pc = "done" /\ job.exc = ""

\* the part of a new Entry that comes from secondary row e
SecondaryPart(e) ==
    Renamed(ValuesRow(e, SecondaryTableFields(AllFields)).data, SecondarySlug)
Holds(data, part) == \A key \in DOMAIN part : key \in DOMAIN data /\ data[key] = part[key]

\* C16: when create_from_filter has completed, the new Table holds as many
\* Entries as the joined result has rows, and every secondary row of the result
\* is in exactly as many of them as there are result rows equal to it: no row
\* of any page is skipped and none is written twice.
C16_OnePerJoinedRow ==
    Completed =>
        /\ Len(TableEntries(job.table)) = Cardinality(MaterialFound)
        /\ \A e \in MaterialFound :
              Cardinality({x \in Range(TableEntries(job.table)) : Holds(x.data, SecondaryPart(e))})
                  = Cardinality({e2 \in MaterialFound : SecondaryPart(e2) = SecondaryPart(e)})

\* the attribute maps of the batches, one after the other
RECURSIVE Flatten(_)
Flatten(batches) == IF batches = <<>> THEN <<>> ELSE Head(batches) \o Flatten(Tail(batches))

\* the attribute maps of the Entries of table t, in id order
DataOf(t) == [i \in DOMAIN TableEntries(t) |-> TableEntries(t)[i].data]

----------------------------------------------------------------------------
(* Requests that name a row that does not exist, under SpecSchema *)

\* the step answers a materialize request whose filter_id names no Filter
AnswersUnknownFilter ==
    /\ Idle
    /\ req'.op = "from-filter"
    /\ resp'.status # "none"
    /\ req'.data.filter_id # 1

\* C18: a materialize request that names a Filter that does not exist is answered
\* with a not-found response and leaves tables, columns and entries as they were.
C18_UnknownIdNotFound ==
    [][AnswersUnknownFilter =>
          /\ resp'.status = "notfound"
          /\ UNCHANGED <<tables, columns, entries>>]_vars

----------------------------------------------------------------------------
(* CSV import: uploads, tables created from an upload, and manual imports   *)
(* into the tables that exist                                                *)

\* the field lists of the imports: b as an int column, b as a text column
ImportFieldLists ==
    { <<Field(c_a, c_a, "text"), Field(c_b, c_b, "int")>>,
      <<Field(c_a, c_a, "text"), Field(c_b, c_b, "text")>> }

\* two tables made without an upload: they have no columns and no field maps
InitImport ==
    /\ tables = <<[name |-> <<"c">>, slug |-> <<"c">>], [name |-> <<"o">>, slug |-> <<"o">>]>>
    /\ columns = <<>>
    /\ entries = <<>>
    /\ nextId = 1
    /\ imports = <<>>
    /\ fieldmaps = <<>>
    /\ filter = NoFilter
    /\ databases = OneDatabase
    /\ tmp = NoFiles
    /\ procs = NoProcs
    /\ job = NoJob
    /\ audit = NoAudit(Len(tables))
    /\ perms = AllPerms
    /\ req = NoRequest
    /\ resp = NoResponse
    /\ seen = {}

NextImport ==
    \/ \E file \in SchemaFiles : Upload(file)
    \/ \E fs \in ImportFieldLists, im \in 0..MaxImports + 1 : TableCreate(<<"n", "e", "w">>, fs, im)
    \/ \E t \in 1..MaxTables + 1, file \in SchemaFiles : ManualImport(t, file)
    \/ Deliver

SpecImport == InitImport /\ [][NextImport]_vars

\* the request answered is an import that ran: a create with an upload, or a
\* manual import into a table that exists
ImportAnswered ==
    /\ ~Idle
    /\ resp.status = "ok"
    /\ \/ req.op = "create" /\ req.data.import_id \in DOMAIN imports
       \/ req.op = "manual-import"

\* the CsvImport row of that import and the table it went to
AnsweredImport == imports[IF req.op = "create" THEN req.data.import_id ELSE resp.body.id]

\* the rows of a file that have a non-numeric value in an int or float field,
\* in file order
RECURSIVE FailingRows(_, _)
FailingRows(rows, maps) ==
    IF rows = <<>> THEN <<>>
    ELSE IF RowFails(Head(rows), maps) THEN <<Head(rows)>> \o FailingRows(Tail(rows), maps)
    ELSE FailingRows(Tail(rows), maps)

----------------------------------------------------------------------------
(* Creating and deleting the Filter.  The models give Filter.join_field and *)
(* FilterJoinTable.join_field as foreign keys to TableColumn, and the       *)
(* tables as foreign keys to Table; a foreign key asks only that the row it *)
(* names exists.                                                             *)

\* a 400 response: a related row the request names does not exist
Invalid == [status |-> "invalid", exc |-> "", rows |-> NoRows, count |-> 0, total_pages |-> 0,
     body |-> NoBody]

\* one side of a created Filter: the table, the join column by id and by name
CreatedSide(t, j) ==
    [table |-> t, join_field |-> columns[j].name, join_column |-> j, fields |-> <<>>]

FilterExists == filter.name # EMPTY

\* FilterViewSet.create: the Filter row and its FilterJoinTable row, with the
\* tables and join columns the request names
FilterCreate(name, pt, pj, st, sj) ==
    /\ Idle
    /\ ~FilterExists
    /\ IF {pt, st} \subseteq DOMAIN tables /\ {pj, sj} \subseteq DOMAIN columns
       THEN /\ filter' = FilterSave([name |-> name, slug |-> None,
                                     primary |-> CreatedSide(pt, pj),
                                     secondary |-> CreatedSide(st, sj)])
            /\ resp' = Done([NoBody EXCEPT !.id = 1])
       ELSE /\ resp' = Invalid
            /\ UNCHANGED filter
    /\ req' = Posted("create-filter", [NoData EXCEPT !.name = name])
    /\ seen' = {}
    /\ UNCHANGED <<tables, columns, entries, nextId, imports, fieldmaps, databases, audit, perms, tmp, procs,
                   job>>

\* FilterViewSet.destroy
FilterDestroy(f) ==
    /\ Idle
    /\ IF f = 1 /\ FilterExists
       THEN /\ filter' = NoFilter
            /\ resp' = Done(NoBody)
       ELSE /\ resp' = NotFound
            /\ UNCHANGED filter
    /\ req' = [Posted("destroy-filter", NoData) EXCEPT !.table = f]
    /\ seen' = {}
    /\ UNCHANGED <<tables, columns, entries, nextId, imports, fieldmaps, databases, audit, perms, tmp, procs,
                   job>>

InitFilters ==
    /\ tables = <<[name |-> <<"c">>, slug |-> <<"c">>], [name |-> <<"o">>, slug |-> <<"o">>]>>
    /\ columns = JoinColumns
    /\ entries = <<>>
    /\ nextId = 1
    /\ imports = <<>>
    /\ fieldmaps = <<>>
    /\ filter = NoFilter
    /\ databases = OneDatabase
    /\ tmp = NoFiles
    /\ procs = NoProcs
    /\ job = NoJob
    /\ audit = NoAudit(Len(tables))
    /\ perms = AllPerms
    /\ req = NoRequest
    /\ resp = NoResponse
    /\ seen = {}

NextFilters ==
    \/ \E pt, st \in 1..Len(tables) + 1, pj, sj \in 1..Len(columns) + 1 :
          FilterCreate(<<"j">>, pt, pj, st, sj)
    \/ \E f \in {1, 2} : FilterDestroy(f)
    \/ Deliver

SpecFilters == InitFilters /\ [][NextFilters]_vars

----------------------------------------------------------------------------
(* The last-edit fields.  Time passes and the signed-in user changes        *)
(* between requests; a save reads the clock once.                            *)

\* the last time of the clock
MaxTime == 3

\* time passes
Tick ==
    /\ Idle
    /\ audit.now < MaxTime
    /\ audit' = [audit EXCEPT !.now = @ + 1]
    /\ UNCHANGED <<tables, columns, entries, nextId, filter, imports, fieldmaps, databases, perms,
                   tmp, procs, job, req, resp, seen>>

\* another user makes the next requests
SignIn(u) ==
    /\ Idle
    /\ u # audit.user
    /\ audit' = [audit EXCEPT !.user = u]
    /\ UNCHANGED <<tables, columns, entries, nextId, filter, imports, fieldmaps, databases, perms,
                   tmp, procs, job, req, resp, seen>>

AuditNames == { <<"a">>, <<"b">> }

InitAudit == InitNames

NextAudit ==
    \/ Tick
    \/ \E u \in Users : SignIn(u)
    \/ \E nm \in AuditNames : TableCreate(nm, <<>>, 0)
    \/ \E t \in 1..MaxTables, nm \in AuditNames : TableUpdate(t, nm)
    \/ \E f \in {1, 2}, nm \in AuditNames : FilterUpdate(f, nm)
    \/ Deliver

SpecAudit == InitAudit /\ [][NextAudit]_vars

\* the request answered saved table t, or the Filter
SavedTable(t) ==
    /\ ~Idle /\ resp.status = "ok"
    /\ \/ req.op = "update" /\ req.table = t
       \/ req.op = "create" /\ resp.body.id = t
SavedFilter == ~Idle /\ resp.status = "ok" /\ req.op = "update-filter"

\* C21: when a request has saved a Table, the Table's last-edit timestamp is the
\* time of that save and its last-edit user is the user who saved it; the same
\* holds of the Filter's last-edit fields when a request has saved the Filter.
C21_AuditOnSave ==
    /\ \A t \in DOMAIN tables :
          SavedTable(t) => /\ audit.tables[t].last_edit_date = audit.now
                           /\ audit.tables[t].last_edit_user = audit.user
    /\ SavedFilter => /\ audit.filter.last_edit_date = audit.now
                      /\ audit.filter.last_edit_user = audit.user

----------------------------------------------------------------------------
(* The Backfill step of an answered entries request: the page is the          *)
(* secondary entries of the rows returned, the primary rows loaded are those  *)
(* the Backfill query finds for it.                                           *)

\* the secondary rows of the page answered, as .values() gave them
AnsweredPage ==
    LET names == SecondaryTableFields(EntriesFields(req.fields))
    IN  [i \in DOMAIN resp.rows |-> ValuesRow(EntryById(resp.rows[i].id), names)]

\* filter_dict when the Backfill step starts
AnsweredDicts ==
    LET fds == EntriesFilterDicts(req.GET).d
    IN  SetIn(fds, SecondarySlug, DATA \o filter.secondary.join_field \o IN_SUFFIX,
              ValuesOf(PrimaryRows(fds[PrimarySlug]), filter.primary.join_field))

\* the primary rows the Backfill step loads for the page answered
Loaded == Backfill(AnsweredPage, AnsweredDicts)

\* C22: in the Backfill step for a page of an entries request with page size P the
\* primary rows loaded are only rows whose join value occurs among the page's
\* secondary rows, and there are at most P of them, however many entries the two
\* tables hold.
C22_BackfillBounded ==
    (EntriesAnswered /\ resp.status = "ok") =>
        /\ \A i \in DOMAIN Loaded :
              \E j \in DOMAIN resp.rows : JoinKeyP(Loaded[i]) = JoinKeyS(EntryById(resp.rows[j].id))
        /\ Len(Loaded) <= PageSize(req.perPage)

----------------------------------------------------------------------------
(* The detail operations of the nested entries (EntryViewSet)                 *)

EntryExists(pk) == \E e \in Range(entries) : e.id = pk

\* get_queryset(): the entries of the table of the URL
InQueryset(t, pk) == \E e \in Range(entries) : e.id = pk /\ e.table = t

\* the object retrieve answers with: Entry.objects.get(pk=pk)
RetrieveFinds(t, pk) == EntryExists(pk)

\* the request of a detail operation on entry pk under table t
Detail(op, t, pk) == [Request(op, t, <<>>, EMPTY, EMPTY, 1, 0) EXCEPT !.pk = pk]

\* EntryViewSet.retrieve
EntryRetrieve(t, pk) ==
    /\ Idle
    /\ resp' = IF t \notin DOMAIN tables \/ ~RetrieveFinds(t, pk) THEN Crash("DoesNotExist")
               ELSE Done([NoBody EXCEPT !.id = pk])
    /\ req' = Detail("retrieve-entry", t, pk)
    /\ UNCHANGED <<tables, columns, entries, nextId, filter, imports, fieldmaps, databases, audit, perms,
                   tmp, procs, job, seen>>

\* EntryViewSet.update: get_object() looks the pk up in get_queryset()
EntryUpdate(t, pk, data) ==
    /\ Idle
    /\ IF t \notin DOMAIN tables
       THEN resp' = Crash("DoesNotExist") /\ UNCHANGED entries
       ELSE IF ~InQueryset(t, pk)
       THEN resp' = NotFound /\ UNCHANGED entries
       ELSE /\ entries' = [i \in DOMAIN entries |->
                              IF entries[i].id = pk THEN [entries[i] EXCEPT !.data = data]
                              ELSE entries[i]]
            /\ resp' = Done([NoBody EXCEPT !.id = pk])
    /\ req' = Detail("update-entry", t, pk)
    /\ seen' = {}
    /\ UNCHANGED <<tables, columns, nextId, filter, imports, fieldmaps, databases, audit, perms,
                   tmp, procs, job>>

\* the entries without entry pk
RECURSIVE Without(_, _)
Without(rows, pk) ==
    IF rows = <<>> THEN <<>>
    ELSE IF Head(rows).id = pk THEN Without(Tail(rows), pk)
    ELSE <<Head(rows)>> \o Without(Tail(rows), pk)

\* EntryViewSet.destroy (ModelViewSet): get_object(), then delete
EntryDestroy(t, pk) ==
    /\ Idle
    /\ IF ~InQueryset(t, pk)
       THEN resp' = NotFound /\ UNCHANGED entries
       ELSE entries' = Without(entries, pk) /\ resp' = Done(NoBody)
    /\ req' = Detail("destroy-entry", t, pk)
    /\ seen' = {}
    /\ UNCHANGED <<tables, columns, nextId, filter, imports, fieldmaps, databases, audit, perms,
                   tmp, procs, job>>

----------------------------------------------------------------------------
(* The universe of the ordering: two primary and two secondary entries, the   *)
(* secondary table named "o" or "o-s"; updates change what the entries hold   *)

OrderNames == { <<"o">>, <<"o", "-", "s">> }

OrderStore ==
    << [id |-> 1, table |-> 1, data |-> [x \in {c_k, c_n} |-> IF x = c_k THEN Num(1) ELSE Str(<<"a">>)]],
       [id |-> 2, table |-> 1, data |-> [x \in {c_k, c_n} |-> IF x = c_k THEN Num(2) ELSE Str(<<"a">>)]],
       [id |-> 3, table |-> 2, data |-> [x \in {c_f, c_v} |-> IF x = c_f THEN Num(1) ELSE Num(1)]],
       [id |-> 4, table |-> 2, data |-> [x \in {c_f, c_v} |-> IF x = c_f THEN Num(2) ELSE Num(1)]] >>

OrderRequests ==
    {Request("entries", 1, <<>>, EMPTY, o, 1, 0) :
        o \in {EMPTY, FieldKey(SecondarySlug, c_v), DASH \o FieldKey(SecondarySlug, c_v),
               FieldKey(PrimarySlug, c_n), DASH \o FieldKey(PrimarySlug, c_n)}}

InitOrder ==
    /\ \E nm \in OrderNames :
          tables = <<[name |-> <<"c">>, slug |-> Slugify(<<"c">>)], [name |-> nm, slug |-> Slugify(nm)]>>
    /\ columns = JoinColumns
    /\ entries = OrderStore
    /\ nextId = Len(OrderStore) + 1
    /\ imports = <<>>
    /\ fieldmaps = <<>>
    /\ filter = JoinFilter
    /\ databases = OneDatabase
    /\ tmp = NoFiles
    /\ procs = NoProcs
    /\ job = NoJob
    /\ audit = NoAudit(Len(tables))
    /\ perms = AllPerms
    /\ req = NoRequest
    /\ resp = NoResponse
    /\ seen = {}

NextOrder ==
    \/ \E pk \in {1, 2}, d \in PrimaryData : EntryUpdate(1, pk, d)
    \/ \E pk \in {3, 4}, d \in SecondaryData : EntryUpdate(2, pk, d)
    \/ \E r \in OrderRequests : Entries(r) /\ UNCHANGED seen
    \/ Deliver

SpecOrder == InitOrder /\ [][NextOrder]_vars

\* C23: __order = <slug>__<column>, with an optional leading "-", returns the merged
\* rows ordered by that column of the table the slug names, ascending or descending
\* as asked, whether the slug is the primary or the secondary table's; without
\* __order the rows come by id.
C23_OrderedByNamedColumn ==
    (EntriesAnswered /\ resp.status = "ok" /\ req.fields \in {EMPTY, ALL}) =>
        LET desc == StartsWith(req.order, DASH)
            key == IF desc THEN From(req.order, 1) ELSE req.order
        IN  IF req.order = EMPTY THEN OrderedById(resp.rows)
            ELSE key \in Range(AllFields) => Ordered(resp.rows, key, desc)

----------------------------------------------------------------------------
(* The entries request query by query: the page of secondary rows is read by  *)
(* one statement, the primary rows of the Backfill step by a later one, and   *)
(* the handler opens no transaction; other requests write in between.         *)

\* FilterViewSet.entries up to paginate_queryset: the count and the page of the
\* secondary query (the primary join values are a subquery of it)
EntriesQuery(r) ==
    /\ Idle
    /\ job.pc = "idle"
    /\ r.table = 1
    /\ LET names == SecondaryTableFields(EntriesFields(r.fields))
           fds == EntriesFilterDicts(r.GET)
           size == PageSize(r.perPage)
       IN  /\ fds.err = "" /\ ValuesValid(names)
           /\ LET join_values == ValuesOf(PrimaryRows(fds.d[PrimarySlug]), filter.primary.join_field)
                  fds2 == SetIn(fds.d, SecondarySlug,
                                DATA \o filter.secondary.join_field \o IN_SUFFIX, join_values)
                  found == SecondaryRows(fds2[SecondarySlug])
              IN  /\ ValidPage(r.page, Cardinality(found), size)
                  /\ \E q \in OrderBy(found, SecondaryOrderBy(r.order)) :
                        LET slice == PageSlice(q, r.page, size)
                        IN  job' = [NoJob EXCEPT
                                       !.pc = "backfill", !.r = r, !.count = Cardinality(found),
                                       !.batches = <<[i \in DOMAIN slice |-> ValuesRow(slice[i], names)]>>]
    /\ UNCHANGED <<tables, columns, entries, nextId, filter, imports, fieldmaps, databases, audit, perms,
                   tmp, procs, req, resp, seen>>

\* the Backfill query over the store as it is now, the lookup and the merge
EntriesBackfill ==
    /\ Idle
    /\ job.pc = "backfill"
    /\ LET rows == job.batches[1]
           given == EntriesFilterDicts(job.r.GET).d
           fds == SetIn(given, SecondarySlug, DATA \o filter.secondary.join_field \o IN_SUFFIX,
                        ValuesOf(PrimaryRows(given[PrimarySlug]), filter.primary.join_field))
       IN  \E out \in (IF LookupFails(rows, fds) THEN {Crash("KeyError")}
                       ELSE {Ok(m, job.count, PageSize(job.r.perPage)) : m \in MergedPages(rows, fds)}) :
              resp' = out
    /\ req' = job.r
    /\ job' = NoJob
    /\ UNCHANGED <<tables, columns, entries, nextId, filter, imports, fieldmaps, databases, audit, perms,
                   tmp, procs, seen>>

DriftRequests == {Request("entries", 1, <<>>, EMPTY, EMPTY, 1, pp) : pp \in {0, 1}}

DriftData ==
    { [x \in {c_k, c_n} |-> IF x = c_k THEN Num(1) ELSE Str(<<"a">>)],
      [x \in {c_k, c_n} |-> IF x = c_k THEN Num(2) ELSE Str(<<"a">>)] }

InitDrift ==
    /\ tables = <<[name |-> <<"c">>, slug |-> <<"c">>], [name |-> <<"o">>, slug |-> <<"o">>]>>
    /\ columns = JoinColumns
    /\ entries = <<>>
    /\ nextId = 1
    /\ imports = <<>>
    /\ fieldmaps = <<>>
    /\ filter = JoinFilter
    /\ databases = OneDatabase
    /\ tmp = NoFiles
    /\ procs = NoProcs
    /\ job = NoJob
    /\ audit = NoAudit(Len(tables))
    /\ perms = AllPerms
    /\ req = NoRequest
    /\ resp = NoResponse
    /\ seen = {}

NextDrift ==
    \/ \E d \in DriftData : CreateEntry(1, d)
    \/ \E d \in SecondaryData : CreateEntry(2, d)
    \/ \E pk \in 1..MaxEntries, d \in DriftData : EntryUpdate(1, pk, d)
    \/ \E pk \in 1..MaxEntries : EntryDestroy(1, pk)
    \/ \E r \in DriftRequests : EntriesQuery(r)
    \/ EntriesBackfill
    \/ Deliver

SpecDrift == InitDrift /\ [][NextDrift]_vars

\* C24: an entries request that other requests interleave with, deleting primary
\* entries or changing their join values between its secondary query and its
\* Backfill step, still completes: the lookup never fails, and every row it
\* returns is merged with a primary row of the same join value.
C24_SurvivesDrift ==
    (req.op = "entries" /\ ~Idle) =>
        /\ resp.status # "error"
        /\ \A i \in DOMAIN resp.rows :
              KeyOf(resp.rows[i], FieldKey(PrimarySlug, filter.primary.join_field))
                  = KeyOf(resp.rows[i], FieldKey(SecondarySlug, filter.secondary.join_field))

----------------------------------------------------------------------------
(* Two tables of one slug: a third table is created under the name of the     *)
(* Filter's secondary table and holds entries of its own                      *)

InitSameSlug == InitDrift

NextSameSlug ==
    \/ TableCreate(<<"o">>, <<>>, 0)
    \/ \E d \in DriftData : CreateEntry(1, d)
    \/ \E t \in {2, 3}, d \in SecondaryData : t \in DOMAIN tables /\ CreateEntry(t, d)
    \/ \E r \in DriftRequests : Entries(r) /\ UNCHANGED seen
    \/ Deliver

SpecSameSlug == InitSameSlug /\ [][NextSameSlug]_vars

\* C25: every row the entries operation produces is built from an Entry of the
\* Filter's declared secondary table, also when another Table has the same slug.
C25_RowsOfSecondaryTable ==
    (EntriesAnswered /\ resp.status = "ok") =>
        \A i \in DOMAIN resp.rows : EntryById(resp.rows[i].id).table = filter.secondary.table

----------------------------------------------------------------------------
(* Who may see the Filter: FilterViewSet.get_queryset keeps the Filters whose  *)
(* primary and secondary table the user holds the view permission on           *)

\* get_queryset() of the user holds the Filter (pk 1)
Visible(u) ==
    /\ <<u, filter.primary.table>> \in perms
    /\ <<u, filter.secondary.table>> \in perms

\* FilterViewSet.retrieve (ModelViewSet): get_object() over get_queryset()
FilterRetrieve(f) ==
    /\ Idle
    /\ resp' = IF f = 1 /\ Visible(audit.user) THEN Done([NoBody EXCEPT !.id = f]) ELSE NotFound
    /\ req' = Detail("retrieve-filter", 0, f)
    /\ UNCHANGED <<tables, columns, entries, nextId, filter, imports, fieldmaps, databases, audit, perms,
                   tmp, procs, job, seen>>

\* the grants of the universe: user 1 sees every table, user 2 every table, all
\* but the secondary table, or all but the primary table
AccessPerms ==
    { AllPerms, AllPerms \ {<<2, 2>>}, AllPerms \ {<<2, 1>>} }

InitAccess ==
    /\ tables = <<[name |-> <<"c">>, slug |-> <<"c">>], [name |-> <<"o">>, slug |-> <<"o">>]>>
    /\ columns = JoinColumns
    /\ entries = <<>>
    /\ nextId = 1
    /\ imports = <<>>
    /\ fieldmaps = <<>>
    /\ filter = JoinFilter
    /\ databases = OneDatabase
    /\ tmp = NoFiles
    /\ procs = NoProcs
    /\ job = NoJob
    /\ audit = NoAudit(Len(tables))
    /\ perms \in AccessPerms
    /\ req = NoRequest
    /\ resp = NoResponse
    /\ seen = {}

NextAccess ==
    \/ \E u \in Users : SignIn(u)
    \/ \E d \in DriftData : CreateEntry(1, d)
    \/ \E d \in SecondaryData : CreateEntry(2, d)
    \/ \E f \in {1, 2} : FilterRetrieve(f)
    \/ \E r \in DriftRequests : Entries(r) /\ UNCHANGED seen
    \/ Deliver

SpecAccess == InitAccess /\ [][NextAccess]_vars

\* C26: a Filter that get_queryset hides from the user of the request is not read
\* through /filters/{id}/entries: the response carries no row and no count of the
\* entries of the Filter's tables.
C26_HiddenFilterUnreadable ==
    (EntriesAnswered /\ ~Visible(audit.user)) =>
        /\ resp.rows = NoRows
        /\ resp.count = 0

----------------------------------------------------------------------------
(* The nested entry routes /tables/{table_pk}/entries/{pk} over two tables *)

InitDetail == InitDrift

NextDetail ==
    \/ \E d \in DriftData : CreateEntry(1, d)
    \/ \E d \in SecondaryData : CreateEntry(2, d)
    \/ \E t \in {1, 2}, pk \in 1..MaxEntries : EntryRetrieve(t, pk)
    \/ \E t \in {1, 2}, pk \in 1..MaxEntries, d \in DriftData : EntryUpdate(t, pk, d)
    \/ Deliver

SpecDetail == InitDetail /\ [][NextDetail]_vars

\* C27: retrieve and update of /tables/T/entries/{pk} only return or modify an
\* Entry whose table is T; the id of an Entry of another table is answered as not
\* found, by retrieve exactly as by update.
C27_DetailScopedToTable ==
    (req.op \in {"retrieve-entry", "update-entry"} /\ ~Idle /\ EntryExists(req.pk)) =>
        IF EntryById(req.pk).table = req.table THEN resp.status = "ok"
        ELSE resp.status = "notfound"

----------------------------------------------------------------------------
(* Which table a key of the Filter read path is assigned to, under SpecJoin *)

SideNames(side) == {side.fields[i].name : i \in DOMAIN side.fields}

\* the requested fields, and the predicate keys that are among all_fields
RequestedFields == Range(EntriesFields(req.fields)) \cap Range(AllFields)
PredicateKeys == {req.GET[i][1] : i \in DOMAIN req.GET} \cap Range(AllFields)

\* C28: in the Filter read path every requested field <slug>__<column> is selected
\* from the table whose slug and column it names, and every predicate on such a key
\* restricts that table's query only, also when the primary slug is a prefix of
\* the secondary slug or the two slugs are equal.
C28_KeysAssignedToNamedTable ==
    EntriesAnswered =>
        /\ \A c \in SideNames(filter.secondary) :
              FieldKey(SecondarySlug, c) \in RequestedFields =>
                  (DATA \o c) \in Range(SecondaryOf(EntriesFields(req.fields)))
        /\ \A c \in SideNames(filter.primary) :
              FieldKey(PrimarySlug, c) \in RequestedFields =>
                  (DATA \o c) \notin Range(SecondaryOf(EntriesFields(req.fields)))
        /\ EntriesFilterDicts(req.GET).err = "" =>
              LET fds == EntriesFilterDicts(req.GET).d
              IN  /\ \A c \in SideNames(filter.secondary) :
                        FieldKey(SecondarySlug, c) \in PredicateKeys =>
                            /\ \E k \in DOMAIN fds[SecondarySlug] : StartsWith(k, DATA \o c)
                            /\ ~\E k \in DOMAIN fds[PrimarySlug] : StartsWith(k, DATA \o c)
                  /\ \A c \in SideNames(filter.primary) :
                        FieldKey(PrimarySlug, c) \in PredicateKeys =>
                            /\ \E k \in DOMAIN fds[PrimarySlug] : StartsWith(k, DATA \o c)
                            /\ ~\E k \in DOMAIN fds[SecondarySlug] : StartsWith(k, DATA \o c)

====
